---- MODULE Spec2Model ----
(***************************************************************************)
(* Model of SummaryReportService.generate_cluster_report                   *)
(* (src/src/application/summary_service.py) together with the              *)
(* JiraCsvRepository it calls (src/src/infraestructure/jira_repository.py) *)
(* and the Chroma collection it reads; of the GET /summary handler around  *)
(* it (src/src/presentation/summary_router.py); of the threads calling     *)
(* into one repository; and of the narrative client's strategy chain       *)
(* (src/src/infraestructure/llm_bedrock.py).                               *)
(*                                                                         *)
(* Text values are sequences of ASCII codes, so that trimming and         *)
(* lexicographic comparison are computed, not assumed.  Item identifiers   *)
(* are the numbers 1..NumIds (the CSV's positional index).                 *)
(***************************************************************************)
EXTENDS Integers, Sequences, FiniteSets, TLC

\* ---------------------------------------------------------------- bounds
NumIds == 3
MaxDay == 2
\* bits of mantissa of the floats the hours are summed in (53 in CPython)
MantissaBits == 3
\* threads calling into one JiraCsvRepository at a time
NumCallers == 2

\* ------------------------------------------------------ program constants
\* SummaryServiceSettings defaults
DefaultDistanceThreshold == 1
DefaultMinClusterSize == 3
DefaultMaxNeighbors == 200
DefaultMaxClusters == 20

Ids == 1..NumIds
Callers == 1..NumCallers
Pairs == {p \in Ids \X Ids : p[1] < p[2]}
\* distances below, at and above the default threshold
Distances == 0..(DefaultDistanceThreshold + 1)

Min(a, b) == IF a <= b THEN a ELSE b
Max(a, b) == IF a >= b THEN a ELSE b
Range(s) == {s[k] : k \in 1..Len(s)}

\* ------------------------------------------------------------------ text
\* None / "" (both falsy in Python)
None == <<>>
\* float NaN that pandas puts in an empty object cell
NaN == <<-1>>
\* pd.NA of a "string" column
NA == <<-2>>
\* the key is not in the dict
Absent == <<-3>>

IsStr(v) == v \notin {NaN, NA, Absent} /\ \A k \in 1..Len(v) : v[k] >= 0

\* str(date): zero-padded two-digit day, standing for YYYY-MM-DD
Iso(d) == <<48 + (d \div 10), 48 + (d % 10)>>
\* the length of a date, the 10 of val[:10]
DateLen == Len(Iso(1))

\* Python's str <= str: lexicographic by code point, a proper prefix is smaller
RECURSIVE StrLeq(_, _)
StrLeq(a, b) ==
    IF a = <<>> THEN TRUE
    ELSE IF b = <<>> THEN FALSE
    ELSE IF Head(a) < Head(b) THEN TRUE
    ELSE IF Head(a) > Head(b) THEN FALSE
    ELSE StrLeq(Tail(a), Tail(b))

\* str.lower() on ASCII text
Lower(s) == [k \in 1..Len(s) |-> IF s[k] >= 65 /\ s[k] <= 90 THEN s[k] + 32 ELSE s[k]]

\* dict.get(key): None (here Absent) when the key is missing
Get(d, key) == IF key \in DOMAIN d THEN d[key] ELSE Absent

\* "Nome n\u00e3o encontrado"
NotFound == <<78, 111, 109, 101, 32, 110, 227, 111, 32, 101, 110, 99, 111, 110, 116, 114,
              97, 100, 111>>

\* ------------------------------------------------------------- variables
VARIABLES
    settings,           \* SummaryServiceSettings
    storeUp,            \* the Chroma path can be opened
    collectionExists,   \* the named collection exists in the store
    items,              \* ids held by the collection
    dist,               \* the collection's pairwise distances (from the embeddings)
    meta,               \* the collection's metadata dict of each item
    storeFails,         \* the store is in a condition where a call to it may raise
    hasRepo,            \* self._jira_repo is not None
    csvExists,          \* Path(csv_path).exists()
    csv,                \* the CSV's rows by positional index
    csvFails,           \* the file is in a condition where pd.read_csv may raise
    df,                 \* JiraCsvRepository._df is not None
    dateCol,            \* "__Criado_date" in _df.columns
    data_inicio,
    data_fim,
    pc,                 \* position in __init__ / generate_cluster_report
    all_ids,
    filterOutcome,      \* how lines 64-70 ended: "skipped", "applied", "raised"
    aggOutcome,         \* how lines 76-111 ended: "skipped", "done", "lookup_raised",
                        \* "day_raised"
    rows_all,
    user_open_counts,
    daily_open_counts,
    window_total_hours,
    unclustered_ids,
    seed_id,
    neighbors,          \* zip(neighbor_ids, distances) of the current query
    pool_at_query,      \* unclustered_ids as the neighbor loop of this seed found it
    current_cluster,
    clusters,
    formed,             \* every current_cluster built, retained or not
    index,              \* enumerate(..., start=1) of the labeling loop
    report_entries,
    returned,           \* what the caller got back: NoReturn until a return statement runs
    storeFaults,        \* store failures met so far: "unreachable", "missing", "get", "query"
    nQueries,           \* collection.query calls of this call
    nRepoCalls,         \* repository calls of this call
    ensure_pc,          \* each caller's position in get_rows_by_ids / _ensure_loaded
    local_df,           \* each caller's local df of line 38 (0: none; else the read's number)
    cached_df,          \* JiraCsvRepository._df as those callers see it (0: None)
    nLoads,             \* pd.read_csv calls that returned a table
    structured_output,  \* BedrockAnthropicClient._structured_output
    llm_pc,             \* position in generate_structured_overview_pt
    invocations,        \* the invoke_model calls made, as <<response_format sent, answer>>
    overview,           \* what generate_structured_overview_pt returned (NoReturn until it does)
    http_status,        \* status of the answer to GET /summary (0 until it is answered)
    http_raised,        \* status codes of the HTTPExceptions raised inside the handler's try
    http_body           \* what the answer carries

storeVars == <<settings, storeUp, collectionExists, items, dist, meta, storeFails>>
repoEnv == <<hasRepo, csvExists, csv, csvFails>>
repoVars == <<df, dateCol>>
argVars == <<data_inicio, data_fim>>
aggVars == <<rows_all, user_open_counts, daily_open_counts, window_total_hours>>
loopVars == <<unclustered_ids, seed_id, neighbors, pool_at_query, current_cluster, clusters,
              formed>>
labelVars == <<index, report_entries>>
callerVars == <<ensure_pc, local_df, cached_df, nLoads>>
llmVars == <<structured_output, llm_pc, invocations, overview>>
httpVars == <<http_status, http_raised, http_body>>
serviceVars == <<storeVars, repoEnv, repoVars, argVars, pc, all_ids, filterOutcome, aggOutcome,
                 aggVars,
                 loopVars, labelVars, returned, storeFaults, nQueries, nRepoCalls>>
vars == <<serviceVars, callerVars, llmVars, httpVars>>

\* ---------------------------------------------------------------- store
\* whether a call to the store goes through
CallOutcomes == IF storeFails THEN BOOLEAN ELSE {TRUE}

Distance(i, j) ==
    IF i = j THEN 0 ELSE dist[<<Min(i, j), Max(i, j)>>]

\* the entries of a result, nearest first; equidistant entries in insertion
\* (id) order
RECURSIVE NearestFirst(_, _)
NearestFirst(seed, S) ==
    IF S = {} THEN <<>>
    ELSE LET m == CHOOSE x \in S : \A y \in S :
                      \/ Distance(seed, x) < Distance(seed, y)
                      \/ Distance(seed, x) = Distance(seed, y) /\ x <= y
         IN  <<[id |-> m, distance |-> Distance(seed, m)]>> \o NearestFirst(seed, S \ {m})

\* collection.query(query_embeddings=[e], n_results=n, include=["distances"]):
\* the n nearest items of the collection with their distances; when items
\* tie at the cut, any of them may be the ones returned
QueryAnswers(seed, n) ==
    LET k == Min(n, Cardinality(items))
        nearest == {S \in SUBSET items :
                       /\ Cardinality(S) = k
                       /\ \A x \in S : \A y \in items \ S :
                              Distance(seed, x) <= Distance(seed, y)}
    IN  {NearestFirst(seed, S) : S \in nearest}

\* ----------------------------------------------------------- repository
\* a CSV cell holding a timestamp, day d at hour h (Stamp: at 9), and one
\* pandas cannot parse
StampAt(d, h) == Iso(d) \o <<32, 48 + h>>
Stamp(d) == StampAt(d, 9)
Garbage == <<120, 120>>

\* the digits of the day at the head of a cell, as a number (0 when they are
\* not two digits), and of the hour after it (NaT when there is none)
IsDigit(c) == c >= 48 /\ c <= 57
DayDigits(v) ==
    IF Len(v) >= DateLen /\ IsDigit(v[1]) /\ IsDigit(v[2])
    THEN 10 * (v[1] - 48) + (v[2] - 48)
    ELSE 0
NaT == -1
HourDigit(v) ==
    IF Len(v) = DateLen + 2 /\ v[DateLen + 1] = 32 /\ IsDigit(v[DateLen + 2])
    THEN v[DateLen + 2] - 48
    ELSE NaT

\* what pandas parses: a date of a day 1..MaxDay, alone or followed by an hour
IsDate(v) == Len(v) = DateLen /\ DayDigits(v) \in 1..MaxDay
IsTimestamp(v) == DayDigits(v) \in 1..MaxDay /\ HourDigit(v) # NaT

\* pd.to_datetime(v, errors="coerce").dt.date.astype("string")
ParseDate(v) ==
    IF IsDate(v) \/ IsTimestamp(v) THEN Iso(DayDigits(v)) ELSE NA

\* pd.to_datetime(v, errors="coerce"), in hours since day 0; NaT for a missing
\* or unparseable cell
ToDatetime(v) ==
    IF IsDate(v) THEN 24 * DayDigits(v)
    ELSE IF IsTimestamp(v) THEN 24 * DayDigits(v) + HourDigit(v)
    ELSE NaT

\* a float keeps MantissaBits significant bits: the spacing of the floats
\* around n, and n rounded to the nearest of them (ties to the even mantissa)
RECURSIVE Ulp(_)
Ulp(n) == IF n < 2 ^ MantissaBits THEN 1 ELSE 2 * Ulp(n \div 2)
RoundFloat(n) ==
    LET u == Ulp(n)
        lo == (n \div u) * u
        hi == lo + u
    IN  IF n - lo < hi - n THEN lo
        ELSE IF n - lo > hi - n THEN hi
        ELSE IF (lo \div u) % 2 = 0 THEN lo ELSE hi

\* _ensure_loaded: "loaded" (_df set), "none" (no file, _df stays None) or
\* "raise" (pd.read_csv fails); a table already loaded is never read again
LoadOutcomes ==
    IF df THEN {"loaded"}
    ELSE IF ~csvExists THEN {"none"}
    ELSE IF csvFails THEN {"loaded", "raise"}
    ELSE {"loaded"}

\* (df["__Criado_date"] >= str(start)) & (df["__Criado_date"] <= str(end));
\* a comparison with <NA> is <NA>, which selects nothing
InMask(i, start, end) ==
    LET d == ParseDate(csv[i].Criado)
    IN  d # NA /\ StrLeq(start, d) /\ StrLeq(d, end)

\* filter_ids_by_date with the mask of line 85 left out
FilterIdsByDateNoMask(ids, start, end) == ids \cap DOMAIN csv

\* filter_ids_by_date on a loaded table
FilterIdsByDate(ids, start, end) ==
    {i \in ids \cap DOMAIN csv : InMask(i, start, end)}

\* the ids a set holds, in the table's row order
RECURSIVE InRowOrder(_)
InRowOrder(S) ==
    IF S = {} THEN <<>>
    ELSE LET m == CHOOSE x \in S : \A y \in S : x <= y
         IN  <<m>> \o InRowOrder(S \ {m})

\* one record of subset.to_dict(orient="records"); id is the row's index
RowDict(i, withDateCol) ==
    [id |-> i,
     Criador |-> csv[i].Criador,
     Criado |-> csv[i].Criado,
     Resolvido |-> csv[i].Resolvido,
     Resumo |-> csv[i].Resumo,
     Descricao |-> csv[i].Descricao,
     CriadoDate |-> IF withDateCol THEN ParseDate(csv[i].Criado) ELSE Absent]

\* get_rows_by_ids on a loaded table; window is None or <<start, end>>
GetRowsByIds(ids, window) ==
    LET kept == {i \in ids \cap DOMAIN csv :
                    window = None \/ InMask(i, window[1], window[2])}
        order == InRowOrder(kept)
    IN  [k \in 1..Len(order) |-> RowDict(order[k], dateCol \/ window # None)]

\* lines 97-102 with the max(..., 0) of line 102 left out
RowHoursUnclamped(r) ==
    LET created == ToDatetime(r.Criado)
        resolved == ToDatetime(r.Resolvido)
    IN  IF created = NaT \/ resolved = NaT THEN 0
        ELSE IF resolved >= created THEN RoundFloat(resolved - created)
        ELSE 0 - RoundFloat(created - resolved)

\* lines 97-102: what one row adds to the total, in hours
RowHours(r) ==
    LET created == ToDatetime(r.Criado)
        resolved == ToDatetime(r.Resolvido)
    IN  IF created = NaT \/ resolved = NaT THEN 0
        ELSE RoundFloat(Max(resolved - created, 0))

\* the loop of compute_total_hours: total_hours += ..., row after row
RECURSIVE SumHours(_, _)
SumHours(total_hours, rows) ==
    IF rows = <<>> THEN total_hours
    ELSE SumHours(RoundFloat(total_hours + RowHours(Head(rows))), Tail(rows))

\* compute_total_hours clamping the running total instead of the row's delta:
\* total_hours = max(total_hours + delta, 0)
RECURSIVE SumHoursClampingTotal(_, _)
SumHoursClampingTotal(total_hours, rows) ==
    IF rows = <<>> THEN total_hours
    ELSE LET sum == total_hours + RowHoursUnclamped(Head(rows))
         IN  SumHoursClampingTotal(IF sum > 0 THEN RoundFloat(sum) ELSE 0, Tail(rows))
ComputeTotalHoursClampingTotal(rows) == SumHoursClampingTotal(0, rows)

\* compute_total_hours
ComputeTotalHours(rows) == SumHours(0, rows)

\* ------------------------------------------------------------ aggregation
RECURSIVE LStrip(_)
LStrip(s) == IF s # <<>> /\ Head(s) = 32 THEN LStrip(Tail(s)) ELSE s

Reverse(s) == [k \in 1..Len(s) |-> s[Len(s) + 1 - k]]

\* str.strip()
Strip(s) == Reverse(LStrip(Reverse(LStrip(s))))

\* Counter: <<key, count>> pairs in first-seen order
RECURSIVE CountKeys(_, _)
CountKeys(acc, keys) ==
    IF keys = <<>> THEN acc
    ELSE LET k == Head(keys)
             hit == {n \in 1..Len(acc) : acc[n][1] = k}
         IN  CountKeys(IF hit = {}
                       THEN Append(acc, <<k, 1>>)
                       ELSE [n \in 1..Len(acc) |->
                                IF n \in hit THEN <<k, acc[n][2] + 1>> ELSE acc[n]],
                       Tail(keys))

\* sorted(..., key=lambda kv: kv[1])[::-1]: equal counts come out last-seen first
RECURSIVE SortByCountAscReversed(_)
SortByCountAscReversed(s) ==
    IF s = <<>> THEN <<>>
    ELSE LET rest == SortByCountAscReversed(Tail(s))
             x == Head(s)
             ahead == {n \in 1..Len(rest) : rest[n][2] >= x[2]}
             n0 == Cardinality(ahead)
         IN  SubSeq(rest, 1, n0) \o <<x>> \o SubSeq(rest, n0 + 1, Len(rest))

\* sorted(..., key=lambda kv: kv[1], reverse=True): stable
RECURSIVE SortByCountDesc(_)
SortByCountDesc(s) ==
    IF s = <<>> THEN <<>>
    ELSE LET rest == SortByCountDesc(Tail(s))
             x == Head(s)
             ahead == {n \in 1..Len(rest) : rest[n][2] > x[2]}
             n0 == Cardinality(ahead)
         IN  SubSeq(rest, 1, n0) \o <<x>> \o SubSeq(rest, n0 + 1, Len(rest))

\* sorted(..., key=lambda kv: kv[0])
RECURSIVE SortByKey(_)
SortByKey(s) ==
    IF s = <<>> THEN <<>>
    ELSE LET rest == SortByKey(Tail(s))
             x == Head(s)
             ahead == {n \in 1..Len(rest) : StrLeq(rest[n][1], x[1]) /\ rest[n][1] # x[1]}
             n0 == Cardinality(ahead)
         IN  SubSeq(rest, 1, n0) \o <<x>> \o SubSeq(rest, n0 + 1, Len(rest))

\* lines 80-85 counting under the creator as it stands, untrimmed
UserOpenCountsUntrimmed(rows) ==
    LET named == SelectSeq(rows, LAMBDA r : IsStr(r.Criador) /\ Strip(r.Criador) # <<>>)
        keys == [k \in 1..Len(named) |-> named[k].Criador]
    IN  SortByCountDesc(CountKeys(<<>>, keys))

\* lines 80-85
UserOpenCounts(rows) ==
    LET named == SelectSeq(rows, LAMBDA r : IsStr(r.Criador) /\ Strip(r.Criador) # <<>>)
        keys == [k \in 1..Len(named) |-> Strip(named[k].Criador)]
    IN  SortByCountDesc(CountKeys(<<>>, keys))

\* lines 90-98: the row's day; bool(pd.NA) raises
DayRaises(r) == r.CriadoDate = NA
DayOf(r) ==
    IF r.CriadoDate \notin {Absent, None} THEN r.CriadoDate
    ELSE IF IsStr(r.Criado) /\ r.Criado # <<>> THEN SubSeq(r.Criado, 1, Min(DateLen, Len(r.Criado)))
    ELSE None

\* lines 88-101
DailyOpenCounts(rows) ==
    LET dated == SelectSeq(rows, LAMBDA r : DayOf(r) # None)
        keys == [k \in 1..Len(dated) |-> DayOf(dated[k])]
    IN  SortByKey(CountKeys(<<>>, keys))

\* ---------------------------------------------------------------- labeling
\* summary_keys of _extract_summary and _extract_sample_summaries
summary_keys == <<"resumo", "Resumo", "summary", "Summary", "title">>
\* keys of _extract_summaries_from_rows ("Descricao" is the accented key)
row_summary_keys == <<"Resumo", "resumo", "summary", "Summary", "Descricao", "descricao">>
\* limit=5 of line 155, limit=3 of lines 171 and 177
RowSummaryLimit == 5
SampleLimit == 3

\* for key in keys: the first value that is a str, non-blank once trimmed and
\* (lower-cased) different from skip; Absent when the dict has none
RECURSIVE FirstText(_, _, _)
FirstText(d, keys, skip) ==
    IF keys = <<>> THEN Absent
    ELSE LET value == Get(d, Head(keys))
         IN  IF IsStr(value) /\ Strip(value) # <<>> /\ Lower(Strip(value)) # skip
             THEN Strip(value)
             ELSE FirstText(d, Tail(keys), skip)

\* a skip that no text equals
NoSkip == Absent

\* _extract_summary scanning the aliases from the last to the first
RECURSIVE ExtractSummaryLastAlias(_)
ExtractSummaryLastAlias(metadatas) ==
    IF metadatas = <<>> THEN NotFound
    ELSE LET t == FirstText(Head(metadatas), Reverse(summary_keys), NoSkip)
         IN  IF t # Absent THEN t ELSE ExtractSummaryLastAlias(Tail(metadatas))

\* _extract_summary: the first member, in the order given, that has a text
RECURSIVE ExtractSummary(_)
ExtractSummary(metadatas) ==
    IF metadatas = <<>> THEN NotFound
    ELSE LET t == FirstText(Head(metadatas), summary_keys, NoSkip)
         IN  IF t # Absent THEN t ELSE ExtractSummary(Tail(metadatas))

\* the loops of _extract_sample_summaries and _extract_summaries_from_rows:
\* one text per dict, stopping once limit texts are held
RECURSIVE CollectTexts(_, _, _, _, _)
CollectTexts(acc, dicts, keys, skip, limit) ==
    IF dicts = <<>> THEN acc
    ELSE LET t == FirstText(Head(dicts), keys, skip)
             acc2 == IF t # Absent THEN Append(acc, t) ELSE acc
         IN  IF Len(acc2) >= limit THEN acc2
             ELSE CollectTexts(acc2, Tail(dicts), keys, skip, limit)

\* _extract_sample_summaries looking only at each member's first text, as
\* _extract_summaries_from_rows does: a member whose first text is skip gives none
ExtractSampleSummariesFirstTextOnly(metadatas, limit, skip) ==
    SelectSeq(CollectTexts(<<>>, metadatas, summary_keys, NoSkip, Len(metadatas) + 1),
              LAMBDA t : Lower(t) # Lower(Strip(skip)))

\* _extract_sample_summaries
ExtractSampleSummaries(metadatas, limit, skip) ==
    CollectTexts(<<>>, metadatas, summary_keys, Lower(Strip(skip)), limit)

\* _extract_summaries_from_rows
ExtractSummariesFromRows(rows, limit) ==
    CollectTexts(<<>>, rows, row_summary_keys, NoSkip, limit)

\* lines 166-168: the representative text, from the metadata or else the rows
Representative(metadatas, csv_summaries) ==
    LET representative_summary == ExtractSummary(metadatas)
    IN  IF (representative_summary = <<>> \/ representative_summary = NotFound)
            /\ csv_summaries # <<>>
        THEN csv_summaries[1]
        ELSE representative_summary

\* ------------------------------------------------------------ clustering
\* the neighbor loop with line 135 left out: a neighbor joins and stays in the pool
RECURSIVE AddNeighborsKeepPool(_, _, _, _)
AddNeighborsKeepPool(cluster, pool, nbrs, threshold) ==
    IF nbrs = <<>> THEN [cluster |-> cluster, pool |-> pool]
    ELSE LET n == Head(nbrs)
         IN  IF n.id \in pool /\ n.distance <= threshold
             THEN AddNeighborsKeepPool(cluster \cup {n.id}, pool, Tail(nbrs), threshold)
             ELSE AddNeighborsKeepPool(cluster, pool, Tail(nbrs), threshold)

\* the neighbor loop taking every returned neighbor out of the pool, close or not
RECURSIVE AddNeighborsDropFar(_, _, _, _)
AddNeighborsDropFar(cluster, pool, nbrs, threshold) ==
    IF nbrs = <<>> THEN [cluster |-> cluster, pool |-> pool]
    ELSE LET n == Head(nbrs)
         IN  IF n.id \in pool /\ n.distance <= threshold
             THEN AddNeighborsDropFar(cluster \cup {n.id}, pool \ {n.id}, Tail(nbrs),
                                      threshold)
             ELSE AddNeighborsDropFar(cluster, pool \ {n.id}, Tail(nbrs), threshold)

\* the neighbor loop with < for <= in line 133
RECURSIVE AddNeighborsStrict(_, _, _, _)
AddNeighborsStrict(cluster, pool, nbrs, threshold) ==
    IF nbrs = <<>> THEN [cluster |-> cluster, pool |-> pool]
    ELSE LET n == Head(nbrs)
         IN  IF n.id \in pool /\ n.distance < threshold
             THEN AddNeighborsStrict(cluster \cup {n.id}, pool \ {n.id}, Tail(nbrs),
                                     threshold)
             ELSE AddNeighborsStrict(cluster, pool, Tail(nbrs), threshold)

\* the neighbor loop with >= for <= in line 133
RECURSIVE AddNeighborsFlipped(_, _, _, _)
AddNeighborsFlipped(cluster, pool, nbrs, threshold) ==
    IF nbrs = <<>> THEN [cluster |-> cluster, pool |-> pool]
    ELSE LET n == Head(nbrs)
         IN  IF n.id \in pool /\ n.distance >= threshold
             THEN AddNeighborsFlipped(cluster \cup {n.id}, pool \ {n.id}, Tail(nbrs),
                                      threshold)
             ELSE AddNeighborsFlipped(cluster, pool, Tail(nbrs), threshold)

\* the neighbor loop taking each absorbed neighbor as a further seed: whatever
\* of the pool is close to it joins too
RECURSIVE AddNeighborsChained(_, _, _, _)
AddNeighborsChained(cluster, pool, nbrs, threshold) ==
    IF nbrs = <<>> THEN [cluster |-> cluster, pool |-> pool]
    ELSE LET n == Head(nbrs)
             chain == {x \in pool : Distance(n.id, x) <= threshold}
         IN  IF n.id \in pool /\ n.distance <= threshold
             THEN AddNeighborsChained(cluster \cup chain, pool \ chain, Tail(nbrs),
                                      threshold)
             ELSE AddNeighborsChained(cluster, pool, Tail(nbrs), threshold)

\* lines 132-135: the neighbor loop, over zip(neighbor_ids, distances)
RECURSIVE AddNeighbors(_, _, _, _)
AddNeighbors(cluster, pool, nbrs, threshold) ==
    IF nbrs = <<>> THEN [cluster |-> cluster, pool |-> pool]
    ELSE LET n == Head(nbrs)
         IN  IF n.id \in pool /\ n.distance <= threshold
             THEN AddNeighbors(cluster \cup {n.id}, pool \ {n.id}, Tail(nbrs), threshold)
             ELSE AddNeighbors(cluster, pool, Tail(nbrs), threshold)

\* line 137
Retained(cluster) == Cardinality(cluster) >= settings.min_cluster_size

\* line 140 left out
SortBySizeNot(s) == s

\* clusters.sort(key=len, reverse=True): stable
RECURSIVE SortBySizeDesc(_)
SortBySizeDesc(s) ==
    IF s = <<>> THEN <<>>
    ELSE LET rest == SortBySizeDesc(Tail(s))
             x == Head(s)
             ahead == {n \in 1..Len(rest) : Cardinality(rest[n]) > Cardinality(x)}
             n0 == Cardinality(ahead)
         IN  SubSeq(rest, 1, n0) \o <<x>> \o SubSeq(rest, n0 + 1, Len(rest))

\* the slice of line 144 left out
TakeAll(s, n) == s

\* s[:n], with Python's meaning of a negative n
Take(s, n) ==
    IF n >= 0 THEN SubSeq(s, 1, Min(n, Len(s)))
    ELSE SubSeq(s, 1, Max(Len(s) + n, 0))

\* the window of lines 64, 78 and 153 taken as soon as one bound is given
DateRangeEitherBound ==
    IF data_inicio # None \/ data_fim # None THEN <<data_inicio, data_fim>> ELSE None

\* (data_inicio, data_fim) if data_inicio and data_fim else None
DateRange == IF data_inicio # None /\ data_fim # None THEN <<data_inicio, data_fim>> ELSE None

\* the orders in which a list of the set's members can come
Orders(S) ==
    {o \in [1..Cardinality(S) -> S] : \A a, b \in 1..Cardinality(S) : a # b => o[a] # o[b]}

\* collection.get(ids=cluster_ids, include=["metadatas"]), members in the order given
Metadatas(order) == [k \in 1..Len(order) |-> meta[order[k]]]

\* the metadatas lists the call may get for a cluster, one per order of its members
MetadataLists(cluster_ids) == {Metadatas(order) : order \in Orders(cluster_ids)}

\* lines 165-187 with the comparison with the representative text left out of
\* line 175
EntryUnfilteredSamples(i, cluster_ids, metadatas, rows) ==
    LET csv_summaries == ExtractSummariesFromRows(rows, RowSummaryLimit)
        representative_summary == Representative(metadatas, csv_summaries)
        sample_from_meta == ExtractSampleSummaries(metadatas, SampleLimit,
                                                   representative_summary)
        sample_from_csv == SelectSeq(csv_summaries,
                               LAMBDA t : t # <<>> /\ Strip(t) # <<>>)
    IN  [group_name |-> i,
         representative_summary |-> representative_summary,
         members |-> cluster_ids,
         row_ids |-> {rows[k].id : k \in 1..Len(rows)},
         csv_summaries |-> csv_summaries,
         occurrences |-> Cardinality(cluster_ids),
         sample_summaries |-> SubSeq(sample_from_meta \o sample_from_csv, 1,
                                     Min(SampleLimit,
                                         Len(sample_from_meta) + Len(sample_from_csv))),
         total_hours |-> ComputeTotalHours(rows)]

\* lines 165-187: ClusterSummary; members, row_ids and csv_summaries are the
\* cluster, the ids of the rows fetched for it and the texts of those rows
Entry(i, cluster_ids, metadatas, rows) ==
    LET csv_summaries == ExtractSummariesFromRows(rows, RowSummaryLimit)
        representative_summary == Representative(metadatas, csv_summaries)
        sample_from_meta == ExtractSampleSummaries(metadatas, SampleLimit,
                                                   representative_summary)
        sample_from_csv == SelectSeq(csv_summaries,
                               LAMBDA t : t # <<>> /\ Strip(t) # <<>>
                                          /\ Strip(t) # representative_summary)
    IN  [group_name |-> i,
         representative_summary |-> representative_summary,
         members |-> cluster_ids,
         row_ids |-> {rows[k].id : k \in 1..Len(rows)},
         csv_summaries |-> csv_summaries,
         occurrences |-> Cardinality(cluster_ids),
         sample_summaries |-> SubSeq(sample_from_meta \o sample_from_csv, 1,
                                     Min(SampleLimit,
                                         Len(sample_from_meta) + Len(sample_from_csv))),
         total_hours |-> ComputeTotalHours(rows)]

Report(groups, users, days, hours) ==
    <<[groups |-> groups, users |-> users, days |-> days, hours |-> hours]>>

\* ---------------------------------------------------------------- actions
\* __init__ taking create_if_missing as set
ConstructCreating ==
    /\ pc = "new"
    /\ IF ~storeUp
       THEN /\ pc' = "failed"
            /\ storeFaults' = storeFaults \cup {"unreachable"}
            /\ UNCHANGED collectionExists
       ELSE /\ pc' = "ready"
            /\ collectionExists' = TRUE
            /\ storeFaults' = storeFaults \cup (IF collectionExists THEN {} ELSE {"missing"})
    /\ UNCHANGED <<callerVars, llmVars, httpVars, settings, storeUp, items, dist, meta, storeFails, repoEnv, repoVars, argVars,
                   all_ids, filterOutcome, aggOutcome, aggVars, loopVars, labelVars, returned, nQueries,
                   nRepoCalls>>

\* __init__, lines 35-48
Construct ==
    /\ pc = "new"
    /\ IF ~storeUp
       THEN /\ pc' = "failed"
            /\ storeFaults' = storeFaults \cup {"unreachable"}
            /\ UNCHANGED collectionExists
       ELSE IF settings.create_if_missing
       THEN /\ pc' = "ready"
            /\ collectionExists' = TRUE
            /\ storeFaults' = storeFaults \cup (IF collectionExists THEN {} ELSE {"missing"})
       ELSE IF collectionExists
       THEN /\ pc' = "ready"
            /\ UNCHANGED <<collectionExists, storeFaults>>
       ELSE /\ pc' = "failed"
            /\ storeFaults' = storeFaults \cup {"missing"}
            /\ UNCHANGED collectionExists
    /\ UNCHANGED <<callerVars, llmVars, httpVars, settings, storeUp, items, dist, meta, storeFails, repoEnv, repoVars, argVars,
                   all_ids,
                   filterOutcome, aggOutcome, aggVars, loopVars, labelVars, returned, nQueries,
                   nRepoCalls>>

\* lines 53-60 with the early return of lines 56-57 left out
ListAllNoEarlyReturn ==
    /\ pc = "ready"
    /\ \E ok \in CallOutcomes :
         IF ~ok
         THEN /\ pc' = "failed"
              /\ storeFaults' = storeFaults \cup {"get"}
              /\ UNCHANGED all_ids
         ELSE /\ all_ids' = items
              /\ pc' = "filter"
              /\ UNCHANGED storeFaults
    /\ UNCHANGED <<callerVars, llmVars, httpVars, storeVars, repoEnv, repoVars, argVars, filterOutcome, aggOutcome, aggVars,
                   loopVars, labelVars, returned, nQueries, nRepoCalls>>

\* lines 53-60: collection.get of everything; an empty store returns at once
ListAll ==
    /\ pc = "ready"
    /\ \E ok \in CallOutcomes :
         IF ~ok
         THEN /\ pc' = "failed"
              /\ storeFaults' = storeFaults \cup {"get"}
              /\ UNCHANGED <<all_ids, returned>>
         ELSE /\ all_ids' = items
              /\ UNCHANGED storeFaults
              /\ IF items = {}
                 THEN /\ pc' = "done"
                      /\ returned' = Report(<<>>, <<>>, <<>>, 0)
                 ELSE /\ pc' = "filter"
                      /\ UNCHANGED returned
    /\ UNCHANGED <<callerVars, llmVars, httpVars, storeVars, repoEnv, repoVars, argVars, filterOutcome, aggOutcome, aggVars,
                   loopVars, labelVars, nQueries, nRepoCalls>>

\* lines 64-70: the window filter, before clustering
FilterWindow ==
    /\ pc = "filter"
    /\ pc' = "aggregate"
    /\ IF DateRange # None /\ hasRepo
       THEN /\ nRepoCalls' = nRepoCalls + 1
            /\ \E outcome \in LoadOutcomes :
                 /\ df' = (outcome = "loaded")
                 /\ dateCol' = (dateCol \/ outcome = "loaded")
                 /\ CASE outcome = "raise" ->
                           /\ filterOutcome' = "raised"
                           /\ UNCHANGED all_ids
                      [] outcome = "none" ->
                           /\ filterOutcome' = "applied"
                           /\ all_ids' = {}
                      [] outcome = "loaded" ->
                           /\ filterOutcome' = "applied"
                           /\ all_ids' = all_ids \cap
                                  FilterIdsByDate(all_ids, data_inicio, data_fim)
       ELSE /\ filterOutcome' = "skipped"
            /\ UNCHANGED <<all_ids, repoVars, nRepoCalls>>
    /\ UNCHANGED <<callerVars, llmVars, httpVars, storeVars, repoEnv, argVars, aggOutcome, aggVars, loopVars, labelVars,
                   returned, storeFaults, nQueries>>

\* lines 73-114 with the try of lines 77-111 left out: a failed row lookup
\* ends the call
AggregateNoCatch ==
    /\ pc = "aggregate"
    /\ unclustered_ids' = all_ids
    /\ IF hasRepo
       THEN \E outcome \in LoadOutcomes :
              LET rows == IF outcome = "loaded" THEN GetRowsByIds(all_ids, DateRange)
                          ELSE <<>>
                  day_raised == \E k \in 1..Len(rows) : DayRaises(rows[k])
                  raised == outcome = "raise" \/ day_raised
              IN  /\ pc' = IF raised THEN "failed" ELSE "loop"
                  /\ df' = (outcome = "loaded")
                  /\ dateCol' = (dateCol \/ (outcome = "loaded" /\ DateRange # None))
                  /\ rows_all' = rows
                  /\ aggOutcome' = IF outcome = "raise" THEN "lookup_raised"
                                   ELSE IF day_raised THEN "day_raised" ELSE "done"
                  /\ nRepoCalls' = nRepoCalls + (IF raised THEN 1 ELSE 2)
                  /\ user_open_counts' = IF raised THEN <<>> ELSE UserOpenCounts(rows)
                  /\ daily_open_counts' = IF raised THEN <<>> ELSE DailyOpenCounts(rows)
                  /\ window_total_hours' = IF raised THEN 0 ELSE ComputeTotalHours(rows)
       ELSE /\ pc' = "loop"
            /\ aggOutcome' = "skipped"
            /\ UNCHANGED <<repoVars, aggVars, nRepoCalls>>
    /\ UNCHANGED <<callerVars, llmVars, httpVars, storeVars, repoEnv, argVars, all_ids, filterOutcome, seed_id, neighbors,
                   pool_at_query, current_cluster, clusters, formed, labelVars, returned,
                   storeFaults, nQueries>>

\* lines 73-114: the aggregates of the window, then the pool
Aggregate ==
    /\ pc = "aggregate"
    /\ pc' = "loop"
    /\ unclustered_ids' = all_ids
    /\ IF hasRepo
       THEN \E outcome \in LoadOutcomes :
              LET rows == IF outcome = "loaded" THEN GetRowsByIds(all_ids, DateRange)
                          ELSE <<>>
                  day_raised == \E k \in 1..Len(rows) : DayRaises(rows[k])
                  raised == outcome = "raise" \/ day_raised
              IN  /\ df' = (outcome = "loaded")
                  /\ dateCol' = (dateCol \/ (outcome = "loaded" /\ DateRange # None))
                  /\ rows_all' = rows
                  /\ aggOutcome' = IF outcome = "raise" THEN "lookup_raised"
                                   ELSE IF day_raised THEN "day_raised" ELSE "done"
                  /\ nRepoCalls' = nRepoCalls + (IF raised THEN 1 ELSE 2)
                  /\ user_open_counts' = IF raised THEN <<>> ELSE UserOpenCounts(rows)
                  /\ daily_open_counts' = IF raised THEN <<>> ELSE DailyOpenCounts(rows)
                  /\ window_total_hours' = IF raised THEN 0 ELSE ComputeTotalHours(rows)
       ELSE /\ aggOutcome' = "skipped"
            /\ UNCHANGED <<repoVars, aggVars, nRepoCalls>>
    /\ UNCHANGED <<callerVars, llmVars, httpVars, storeVars, repoEnv, argVars, all_ids, filterOutcome, seed_id, neighbors,
                   pool_at_query, current_cluster, clusters, formed, labelVars, returned,
                   storeFaults, nQueries>>

\* lines 116-130 with line 118 left out: the seed stays in the pool
PickSeedKeepSeed ==
    /\ pc = "loop"
    /\ unclustered_ids # {}
    /\ nQueries <= NumIds
    /\ \E s \in unclustered_ids :
         /\ seed_id' = s
         /\ unclustered_ids' = unclustered_ids
         /\ pool_at_query' = unclustered_ids
         /\ current_cluster' = {s}
         /\ nQueries' = nQueries + 1
         /\ \E ok \in CallOutcomes :
              IF ok
              THEN /\ neighbors' \in QueryAnswers(s, settings.max_neighbors)
                   /\ pc' = "absorb"
                   /\ UNCHANGED storeFaults
              ELSE /\ neighbors' = <<>>
                   /\ pc' = "failed"
                   /\ storeFaults' = storeFaults \cup {"query"}
    /\ UNCHANGED <<callerVars, llmVars, httpVars, storeVars, repoEnv, repoVars, argVars, all_ids, filterOutcome, aggOutcome, aggVars,
                   clusters, formed, labelVars, returned, nRepoCalls>>

\* lines 116-130: take a seed out of the pool and query its neighbors
PickSeed ==
    /\ pc = "loop"
    /\ unclustered_ids # {}
    /\ \E s \in unclustered_ids :
         /\ seed_id' = s
         /\ unclustered_ids' = unclustered_ids \ {s}
         /\ pool_at_query' = unclustered_ids \ {s}
         /\ current_cluster' = {s}
         /\ nQueries' = nQueries + 1
         /\ \E ok \in CallOutcomes :
              IF ok
              THEN /\ neighbors' \in QueryAnswers(s, settings.max_neighbors)
                   /\ pc' = "absorb"
                   /\ UNCHANGED storeFaults
              ELSE /\ neighbors' = <<>>
                   /\ pc' = "failed"
                   /\ storeFaults' = storeFaults \cup {"query"}
    /\ UNCHANGED <<callerVars, llmVars, httpVars, storeVars, repoEnv, repoVars, argVars, all_ids, filterOutcome, aggOutcome, aggVars,
                   clusters, formed, labelVars, returned, nRepoCalls>>

\* lines 132-138: absorb the close neighbors still in the pool, keep a big enough cluster
Absorb ==
    /\ pc = "absorb"
    /\ pc' = "loop"
    /\ LET r == AddNeighbors(current_cluster, unclustered_ids, neighbors,
                             settings.distance_threshold)
       IN  /\ current_cluster' = r.cluster
           /\ unclustered_ids' = r.pool
           /\ formed' = Append(formed, r.cluster)
           /\ clusters' = IF Retained(r.cluster) THEN Append(clusters, r.cluster)
                          ELSE clusters
    /\ UNCHANGED <<callerVars, llmVars, httpVars, storeVars, repoEnv, repoVars, argVars, all_ids, filterOutcome, aggOutcome, aggVars,
                   seed_id, neighbors, pool_at_query, labelVars, returned, storeFaults,
                   nQueries, nRepoCalls>>

\* lines 140-142: the pool is empty; sort by size, largest first
SortClusters ==
    /\ pc = "loop"
    /\ unclustered_ids = {}
    /\ pc' = "label"
    /\ clusters' = SortBySizeDesc(clusters)
    /\ index' = 1
    /\ report_entries' = <<>>
    /\ UNCHANGED <<callerVars, llmVars, httpVars, storeVars, repoEnv, repoVars, argVars, all_ids, filterOutcome, aggOutcome, aggVars,
                   unclustered_ids, seed_id, neighbors, pool_at_query, current_cluster,
                   formed, returned, storeFaults, nQueries, nRepoCalls>>

\* lines 144-187: one turn of the labeling loop over clusters[:max_clusters]
LabelCluster ==
    /\ pc = "label"
    /\ index <= Len(Take(clusters, settings.max_clusters))
    /\ LET cluster_ids == Take(clusters, settings.max_clusters)[index]
       IN  \E ok \in CallOutcomes, metadatas \in MetadataLists(cluster_ids) :
             IF ~ok
             THEN /\ pc' = "failed"
                  /\ storeFaults' = storeFaults \cup {"get"}
                  /\ UNCHANGED <<repoVars, labelVars, nRepoCalls>>
             ELSE /\ UNCHANGED <<pc, storeFaults>>
                  /\ index' = index + 1
                  /\ IF hasRepo
                     THEN \E outcome \in LoadOutcomes :
                            LET rows == IF outcome = "loaded"
                                        THEN GetRowsByIds(cluster_ids, DateRange)
                                        ELSE <<>>
                            IN  /\ df' = (outcome = "loaded")
                                /\ dateCol' = (dateCol \/
                                       (outcome = "loaded" /\ DateRange # None))
                                /\ nRepoCalls' = nRepoCalls +
                                       (IF outcome = "raise" THEN 1 ELSE 2)
                                /\ report_entries' = Append(report_entries,
                                       Entry(index, cluster_ids, metadatas, rows))
                     ELSE /\ report_entries' = Append(report_entries,
                                       Entry(index, cluster_ids, metadatas, <<>>))
                          /\ UNCHANGED <<repoVars, nRepoCalls>>
    /\ UNCHANGED <<callerVars, llmVars, httpVars, storeVars, repoEnv, argVars, all_ids, filterOutcome, aggOutcome, aggVars, loopVars,
                   returned, nQueries>>

\* line 189
Return ==
    /\ pc = "label"
    /\ index > Len(Take(clusters, settings.max_clusters))
    /\ pc' = "done"
    /\ returned' = Report(report_entries, user_open_counts, daily_open_counts,
                          window_total_hours)
    /\ UNCHANGED <<callerVars, llmVars, httpVars, storeVars, repoEnv, repoVars, argVars, all_ids, filterOutcome, aggOutcome, aggVars,
                   loopVars, labelVars, storeFaults, nQueries, nRepoCalls>>

\* ------------------------------------------------- narrative overview
\* what an invoke_model call may give: an exception (of the call, or of
\* decoding its body); a text that is a JSON object with "periodo", a JSON
\* object without it, prose around a JSON object, JSON that is no object
\* ("[1]"), JSON that is falsy ("{}"), prose without JSON; or no text
Answers ==
    {"raises", "periodo_object", "other_object", "embedded_object", "not_object", "falsy",
     "prose", "no_text"}

\* _best_effort_json(text): the value parsed out of the text, "none" for None
BestEffortJson(answer) ==
    CASE answer = "periodo_object" -> "object_with_periodo"
      [] answer \in {"other_object", "embedded_object"} -> "object"
      [] answer = "not_object" -> "not_object"
      [] answer = "falsy" -> "falsy"
      [] OTHER -> "none"

\* `if data:` of lines 173 and 200
Truthy(data) == data \in {"object_with_periodo", "object", "not_object"}

\* lines 78-86
Periodo ==
    IF data_inicio # None /\ data_fim # None THEN <<"range", data_inicio, data_fim>>
    ELSE IF data_inicio # None THEN <<"from", data_inicio>>
    ELSE IF data_fim # None THEN <<"until", data_fim>>
    ELSE <<"undefined">>

\* lines 206-213
Canned == [by |-> "canned", data |-> "object_with_periodo", periodo |-> Periodo]

\* lines 70-177: the prompt, then the first attempt, with response_format
\* when structured output is enabled
FirstAttempt ==
    /\ llm_pc = "idle"
    /\ \E answer \in Answers :
         LET data == BestEffortJson(answer)
         IN  /\ invocations' = Append(invocations, <<structured_output, answer>>)
             /\ IF answer # "raises" /\ Truthy(data)
                THEN /\ llm_pc' = "returned"
                     /\ overview' = <<[by |-> "first", data |-> data]>>
                ELSE /\ llm_pc' = "second"
                     /\ UNCHANGED overview
    /\ UNCHANGED <<serviceVars, callerVars, structured_output, httpVars>>

\* lines 179-213 with the try of lines 180-204 left out
SecondAttemptNoCatch ==
    /\ llm_pc = "second"
    /\ \E answer \in Answers :
         LET data == BestEffortJson(answer)
         IN  /\ invocations' = Append(invocations, <<FALSE, answer>>)
             /\ IF answer = "raises"
                THEN /\ llm_pc' = "raised"
                     /\ UNCHANGED overview
                ELSE /\ llm_pc' = "returned"
                     /\ overview' = IF Truthy(data) THEN <<[by |-> "second", data |-> data]>>
                                    ELSE <<Canned>>
    /\ UNCHANGED <<serviceVars, callerVars, structured_output, httpVars>>

\* lines 179-213: the second attempt, without response_format, then the
\* canned answer
SecondAttempt ==
    /\ llm_pc = "second"
    /\ llm_pc' = "returned"
    /\ \E answer \in Answers :
         LET data == BestEffortJson(answer)
         IN  /\ invocations' = Append(invocations, <<FALSE, answer>>)
             /\ overview' = IF answer # "raises" /\ Truthy(data)
                            THEN <<[by |-> "second", data |-> data]>>
                            ELSE <<Canned>>
    /\ UNCHANGED <<serviceVars, callerVars, structured_output, httpVars>>

\* ------------------------------------------------------------ GET /summary
\* a date written without its leading zero, as in 2024-9-1
Unpadded(d) == <<48 + d>>

\* datetime.strptime(v, "%Y-%m-%d").date(), as a day number: %d takes one or
\* two digits, of a day that exists; NaT stands for the ValueError
Strptime(v) ==
    IF Len(v) = 1 /\ IsDigit(v[1]) /\ v[1] - 48 \in 1..MaxDay THEN v[1] - 48
    ELSE IF Len(v) = DateLen /\ DayDigits(v) \in 1..MaxDay THEN DayDigits(v)
    ELSE NaT

\* lines 21-33 and 42-44: the dates are checked when both are given; the
\* HTTPException(400) of lines 30 and 32 is raised inside the try of line 21
\* and caught by `except Exception`, which answers 500
ValidateWindow ==
    /\ pc = "constructed"
    /\ http_status = 0
    /\ LET both == data_inicio # None /\ data_fim # None
           di == Strptime(data_inicio)
           df_ == Strptime(data_fim)
           rejected == both /\ (di = NaT \/ df_ = NaT \/ di > df_)
       IN  IF rejected
           THEN /\ http_raised' = http_raised \cup {"HTTPException(400)"}
                /\ http_status' = 500
                /\ UNCHANGED pc
           ELSE /\ pc' = "ready"
                /\ UNCHANGED <<http_status, http_raised>>
    /\ UNCHANGED <<callerVars, llmVars, http_body, storeVars, repoEnv, repoVars, argVars,
                   all_ids, filterOutcome, aggOutcome, aggVars, loopVars, labelVars,
                   returned, storeFaults, nQueries, nRepoCalls>>

\* whether build_summary_report_pdf goes through
RenderOutcomes == BOOLEAN

\* lines 34-48: the values returned are unpacked into three names, the PDF
\* is built and answered; any exception is answered with 500
Respond ==
    /\ pc \in {"done", "failed"}
    /\ http_status = 0
    /\ \E rendered \in RenderOutcomes :
         IF pc = "failed"
         THEN /\ http_raised' = http_raised \cup {"generate_cluster_report"}
              /\ http_status' = 500
              /\ UNCHANGED http_body
         ELSE IF Cardinality(DOMAIN returned[1]) # 3
         THEN /\ http_raised' = http_raised \cup {"ValueError"}
              /\ http_status' = 500
              /\ UNCHANGED http_body
         ELSE IF ~rendered
         THEN /\ http_raised' = http_raised \cup {"build_summary_report_pdf"}
              /\ http_status' = 500
              /\ UNCHANGED http_body
         ELSE /\ http_status' = 200
              /\ http_body' = <<"application/pdf">>
              /\ UNCHANGED http_raised
    /\ UNCHANGED <<callerVars, llmVars, serviceVars>>

\* ------------------------------------------- callers of one repository
\* whether pd.read_csv goes through
ReadOutcomes == IF csvFails THEN BOOLEAN ELSE {TRUE}

\* get_rows_by_ids / filter_ids_by_date entered: line 48 / 73
CallRepository(t) ==
    /\ ensure_pc[t] = "idle"
    /\ ensure_pc' = [ensure_pc EXCEPT ![t] = "ensure"]
    /\ UNCHANGED <<serviceVars, local_df, cached_df, nLoads, llmVars, httpVars>>

\* _ensure_loaded, lines 31-32: return if self._df is not None
EnsureLoaded(t) ==
    /\ ensure_pc[t] = "ensure"
    /\ ensure_pc' = [ensure_pc EXCEPT ![t] = IF cached_df # 0 THEN "rows" ELSE "path"]
    /\ UNCHANGED <<serviceVars, local_df, cached_df, nLoads, llmVars, httpVars>>

\* _ensure_loaded, lines 33-37: no file, self._df = None
CheckPath(t) ==
    /\ ensure_pc[t] = "path"
    /\ IF csvExists
       THEN /\ ensure_pc' = [ensure_pc EXCEPT ![t] = "read"]
            /\ UNCHANGED cached_df
       ELSE /\ ensure_pc' = [ensure_pc EXCEPT ![t] = "rows"]
            /\ cached_df' = 0
    /\ UNCHANGED <<serviceVars, local_df, nLoads, llmVars, httpVars>>

\* _ensure_loaded, lines 38-40: df = pd.read_csv(path), a new table each time
ReadCsv(t) ==
    /\ ensure_pc[t] = "read"
    /\ \E ok \in ReadOutcomes :
         IF ok
         THEN /\ ensure_pc' = [ensure_pc EXCEPT ![t] = "assign"]
              /\ local_df' = [local_df EXCEPT ![t] = nLoads + 1]
              /\ nLoads' = nLoads + 1
         ELSE /\ ensure_pc' = [ensure_pc EXCEPT ![t] = "raised"]
              /\ UNCHANGED <<local_df, nLoads>>
    /\ UNCHANGED <<serviceVars, cached_df, llmVars, httpVars>>

\* _ensure_loaded, line 41: self._df = df
AssignDf(t) ==
    /\ ensure_pc[t] = "assign"
    /\ ensure_pc' = [ensure_pc EXCEPT ![t] = "rows"]
    /\ cached_df' = local_df[t]
    /\ UNCHANGED <<serviceVars, local_df, nLoads, llmVars, httpVars>>

\* lines 49-66 / 74-86: the rows are taken from self._df and the call returns
ReturnRows(t) ==
    /\ ensure_pc[t] = "rows"
    /\ ensure_pc' = [ensure_pc EXCEPT ![t] = "returned"]
    /\ local_df' = [local_df EXCEPT ![t] = cached_df]
    /\ UNCHANGED <<serviceVars, cached_df, nLoads, llmVars, httpVars>>

\* the caller's report goes on to its next repository call (lines 79, 154)
NextCall(t) ==
    /\ ensure_pc[t] \in {"returned", "raised"}
    /\ ensure_pc' = [ensure_pc EXCEPT ![t] = "idle"]
    /\ local_df' = [local_df EXCEPT ![t] = 0]
    /\ UNCHANGED <<serviceVars, cached_df, nLoads, llmVars, httpVars>>

\* --------------------------------------------------------- initial states
\* names and rows the CSV is filled with
Ana == <<65, 110, 97>>
Bob == <<66, 111, 98>>
\* a CSV line; an empty cell is read as NaN
CsvLine(criador, criado, resolvido, resumo, descricao) ==
    [Criador |-> criador, Criado |-> criado, Resolvido |-> resolvido, Resumo |-> resumo,
     Descricao |-> descricao]
CsvRow(i, criado) ==
    CsvLine(IF i % 2 = 1 THEN Ana ELSE Bob, criado, StampAt(MaxDay, i), NaN, NaN)
NoMeta == [i \in Ids |-> <<>>]

Settings(threshold, min_size, max_nb, max_cl, create) ==
    [distance_threshold |-> threshold, min_cluster_size |-> min_size,
     max_neighbors |-> max_nb, max_clusters |-> max_cl, create_if_missing |-> create]

MinClusterSizes == {1, 2, DefaultMinClusterSize}
NeighborLimits == {1, 2, DefaultMaxNeighbors}
ClusterLimits == {-1, 0, 1, DefaultMaxClusters}
WindowDates == {None} \cup {Iso(d) : d \in 1..MaxDay}
CreatedCells == {Garbage} \cup {Stamp(d) : d \in 1..MaxDay}
AllNear == [p \in Pairs |-> 0]
AllFar == [p \in Pairs |-> DefaultDistanceThreshold + 1]

\* a healthy store holding every id, no repository, no window; every
\* distance table, every size, neighbor and cluster limit
InitClustering ==
    /\ settings \in
          {Settings(DefaultDistanceThreshold, m, n, DefaultMaxClusters, FALSE) :
              m \in MinClusterSizes, n \in NeighborLimits}
          \cup {Settings(DefaultDistanceThreshold, m, DefaultMaxNeighbors, c, FALSE) :
              m \in MinClusterSizes, c \in ClusterLimits}
    /\ storeUp = TRUE /\ collectionExists = TRUE /\ items = Ids /\ storeFails = FALSE
    /\ dist \in [Pairs -> Distances] /\ meta = NoMeta
    /\ hasRepo = FALSE /\ csvExists = FALSE /\ csv = <<>> /\ csvFails = FALSE
    /\ data_inicio = None /\ data_fim = None

\* as above with every threshold, the limits at their defaults
InitThreshold ==
    /\ settings \in {Settings(t, 1, DefaultMaxNeighbors, DefaultMaxClusters, FALSE) :
                        t \in Distances}
    /\ storeUp = TRUE /\ collectionExists = TRUE /\ items = Ids /\ storeFails = FALSE
    /\ dist \in [Pairs -> Distances] /\ meta = NoMeta
    /\ hasRepo = FALSE /\ csvExists = FALSE /\ csv = <<>> /\ csvFails = FALSE
    /\ data_inicio = None /\ data_fim = None

\* a repository over every CSV (rows missing, dated or undatable; file absent)
\* and every window, the store healthy and its items all near each other;
\* reading the file may fail when it holds a row for every item
InitWindow ==
    /\ settings \in {Settings(DefaultDistanceThreshold, m, DefaultMaxNeighbors,
                              DefaultMaxClusters, FALSE) : m \in {1}}
    /\ storeUp = TRUE /\ collectionExists = TRUE /\ items = Ids /\ storeFails = FALSE
    /\ dist = AllNear /\ meta = NoMeta
    /\ hasRepo = TRUE
    /\ csvExists \in BOOLEAN
    /\ IF csvExists
       THEN \E S \in SUBSET Ids : \E c \in [S -> CreatedCells] :
                csv = [i \in S |-> CsvRow(i, c[i])]
       ELSE csv = <<>>
    /\ csvFails \in (IF csvExists /\ DOMAIN csv = Ids THEN BOOLEAN ELSE {FALSE})
    /\ data_inicio \in WindowDates /\ data_fim \in WindowDates

\* creators as the CSV may spell them: padded, in another case, blank, missing
CreatorCells == {Ana, <<97, 110, 97, 32>>, <<32, 65, 110, 97>>, Bob, <<32, 32>>, NaN}

\* a repository over every spelling of the rows' creators, no window
InitCreators ==
    /\ settings = Settings(DefaultDistanceThreshold, 1, DefaultMaxNeighbors,
                           DefaultMaxClusters, FALSE)
    /\ storeUp = TRUE /\ collectionExists = TRUE /\ items = Ids /\ storeFails = FALSE
    /\ dist = AllNear /\ meta = NoMeta
    /\ hasRepo = TRUE /\ csvExists = TRUE /\ csvFails = FALSE
    /\ \E c \in [Ids -> CreatorCells] :
            csv = [i \in Ids |-> CsvLine(c[i], Stamp(1), StampAt(MaxDay, i), NaN, NaN)]
    /\ data_inicio = None /\ data_fim = None

\* the timestamps of a row: resolved 1 h and 8 h after creation, resolved
\* before creation, not resolved, creation or resolution unparseable
TimestampCells ==
    {<<StampAt(1, 0), StampAt(1, 1)>>, <<StampAt(1, 0), StampAt(1, 8)>>,
     <<StampAt(1, 9), StampAt(1, 1)>>, <<StampAt(1, 0), NaN>>,
     <<Garbage, StampAt(1, 8)>>, <<StampAt(1, 0), Garbage>>}

\* a repository over every combination of such rows, no window
InitHours ==
    /\ settings = Settings(DefaultDistanceThreshold, 1, DefaultMaxNeighbors,
                           DefaultMaxClusters, FALSE)
    /\ storeUp = TRUE /\ collectionExists = TRUE /\ items = Ids /\ storeFails = FALSE
    /\ dist = AllNear /\ meta = NoMeta
    /\ hasRepo = TRUE /\ csvExists = TRUE /\ csvFails = FALSE
    /\ \E c \in [Ids -> TimestampCells] :
            csv = [i \in Ids |-> CsvLine(Ana, c[i][1], c[i][2], NaN, NaN)]
    /\ data_inicio = None /\ data_fim = None

\* texts of metadata and rows
Vpn == <<86, 112, 110>>
Wifi == <<87, 105, 102, 105>>
Lan == <<76, 97, 110>>
Dns == <<68, 110, 115>>
Blank == <<32, 32>>
Padded(t) == <<32>> \o t \o <<32>>

\* the summary fields an item's metadata may hold: none, one alias, a blank
\* alias before a padded one, two aliases, a value that is not a str, the
\* placeholder text
MetaCells ==
    {<<>>,
     [resumo |-> Vpn],
     [title |-> Wifi],
     [resumo |-> Blank, title |-> Padded(Wifi)],
     [Resumo |-> Lan, summary |-> Vpn],
     [resumo |-> NaN, Summary |-> NotFound]}

\* the Resumo and Descricao cells of a row
RowTextCells ==
    {<<NaN, NaN>>, <<Vpn, Dns>>, <<Blank, Wifi>>, <<Padded(Vpn), Lan>>}

\* a store of every combination of metadata, over a repository whose rows
\* hold one text
InitLabels ==
    /\ settings = Settings(DefaultDistanceThreshold, 1, DefaultMaxNeighbors,
                           DefaultMaxClusters, FALSE)
    /\ storeUp = TRUE /\ collectionExists = TRUE /\ items = Ids /\ storeFails = FALSE
    /\ dist = AllNear
    /\ meta \in [Ids -> MetaCells]
    /\ hasRepo = TRUE /\ csvExists = TRUE /\ csvFails = FALSE
    /\ csv = [i \in Ids |-> CsvLine(Ana, Stamp(1), StampAt(MaxDay, i),
                                     IF i = 1 THEN NaN ELSE Lan, NaN)]
    /\ data_inicio = None /\ data_fim = None

\* a store whose metadata hold no text, over every combination of row texts
InitRowTexts ==
    /\ settings = Settings(DefaultDistanceThreshold, 1, DefaultMaxNeighbors,
                           DefaultMaxClusters, FALSE)
    /\ storeUp = TRUE /\ collectionExists = TRUE /\ items = Ids /\ storeFails = FALSE
    /\ dist = AllNear
    /\ meta \in {NoMeta, [i \in Ids |-> [resumo |-> Blank]]}
    /\ hasRepo = TRUE /\ csvExists = TRUE /\ csvFails = FALSE
    /\ \E c \in [Ids -> RowTextCells] :
            csv = [i \in Ids |-> CsvLine(Ana, Stamp(1), StampAt(MaxDay, i), c[i][1],
                                         c[i][2])]
    /\ data_inicio = None /\ data_fim = None

\* every condition of the store, with and without create_if_missing
InitStore ==
    /\ settings \in {Settings(DefaultDistanceThreshold, 1, DefaultMaxNeighbors,
                              DefaultMaxClusters, create) : create \in BOOLEAN}
    /\ storeUp \in BOOLEAN /\ collectionExists \in BOOLEAN /\ storeFails \in BOOLEAN
    /\ items \in (IF storeUp /\ collectionExists THEN SUBSET Ids ELSE {{}})
    /\ dist \in {AllNear, AllFar} /\ meta = NoMeta
    /\ hasRepo \in BOOLEAN
    /\ csvExists = hasRepo /\ csvFails = FALSE
    /\ csv = IF hasRepo THEN [i \in Ids |-> CsvRow(i, Stamp(1))] ELSE <<>>
    /\ \E w \in {<<None, None>>, <<Iso(1), Iso(MaxDay)>>} :
            data_inicio = w[1] /\ data_fim = w[2]

\* the distance tables of the loop: pairs at distance 0 or beyond the
\* threshold, with at most NearPairLimit pairs near, or all of them
NearPairLimit == 2
PoolTables ==
    {t \in [Pairs -> {0, DefaultDistanceThreshold + 1}] :
        t = AllNear \/ Cardinality({p \in Pairs : t[p] = 0}) <= NearPairLimit}

\* a store of such items, under every neighbor limit, its calls failing or
\* not: the inputs of the loop
InitPool ==
    /\ settings \in {Settings(DefaultDistanceThreshold, 1, n, DefaultMaxClusters, FALSE) :
                        n \in NeighborLimits}
    /\ storeUp = TRUE /\ collectionExists = TRUE /\ items = Ids /\ storeFails \in BOOLEAN
    /\ dist \in PoolTables /\ meta = NoMeta
    /\ hasRepo = FALSE /\ csvExists = FALSE /\ csv = <<>> /\ csvFails = FALSE
    /\ data_inicio = None /\ data_fim = None

\* a creation cell of row i on day d: with a time of day, or the date alone
CreatedOn(i, d) == IF i % 2 = 1 THEN StampAt(d, i) ELSE Iso(d)

\* the windows a request may carry past the validation of its dates: both
\* bounds zero-padded, or one of them without its leading zero
BoundPairs ==
    {<<Iso(a), Iso(b)>> : a, b \in 1..MaxDay}
    \cup {<<Unpadded(a), Iso(b)>> : a, b \in 1..MaxDay}
    \cup {<<Iso(a), Unpadded(b)>> : a, b \in 1..MaxDay}

\* a store that holds every id but the last, over every CSV whose rows (of
\* any ids) are dated or undatable, and every such window
InitBounds ==
    /\ settings = Settings(DefaultDistanceThreshold, 1, DefaultMaxNeighbors,
                           DefaultMaxClusters, FALSE)
    /\ storeUp = TRUE /\ collectionExists = TRUE /\ items = Ids \ {NumIds}
    /\ storeFails = FALSE
    /\ dist = AllNear /\ meta = NoMeta
    /\ hasRepo = TRUE /\ csvExists = TRUE /\ csvFails = FALSE
    /\ \E S \in SUBSET Ids : \E c \in [S -> 0..MaxDay] :
            csv = [i \in S |-> CsvRow(i, IF c[i] = 0 THEN Garbage ELSE CreatedOn(i, c[i]))]
    /\ \E w \in BoundPairs : data_inicio = w[1] /\ data_fim = w[2]

\* the repository not loaded, no call made
NoCallYet ==
    /\ df = FALSE /\ dateCol = FALSE
    /\ all_ids = {} /\ filterOutcome = "none" /\ aggOutcome = "none"
    /\ rows_all = <<>> /\ user_open_counts = <<>> /\ daily_open_counts = <<>>
    /\ window_total_hours = 0
    /\ unclustered_ids = {} /\ seed_id = 0 /\ neighbors = <<>> /\ pool_at_query = {}
    /\ current_cluster = {}
    /\ clusters = <<>> /\ formed = <<>>
    /\ index = 0 /\ report_entries = <<>>
    /\ returned = <<>> /\ storeFaults = {}
    /\ nQueries = 0 /\ nRepoCalls = 0

\* the service before __init__
Unstarted ==
    /\ pc = "new"
    /\ NoCallYet

\* no thread is inside the repository, and nothing has been loaded
CallersIdle ==
    /\ ensure_pc = [t \in Callers |-> "idle"]
    /\ local_df = [t \in Callers |-> 0]
    /\ cached_df = 0
    /\ nLoads = 0

\* no overview has been asked for
LlmIdle ==
    /\ structured_output = TRUE
    /\ llm_pc = "idle"
    /\ invocations = <<>>
    /\ overview = <<>>

\* no request is being answered
HttpIdle ==
    /\ http_status = 0
    /\ http_raised = {}
    /\ http_body = None

\* the service is called directly, by one caller
Detached == CallersIdle /\ LlmIdle /\ HttpIdle

Init ==
    /\ InitClustering \/ InitThreshold \/ InitStore
    /\ Unstarted
    /\ Detached

\* the service over the repositories and windows that exercise the date filter
InitWindowed ==
    /\ InitWindow
    /\ Unstarted
    /\ Detached

\* exactly one bound of the window is given
OneSided == (data_inicio = None) # (data_fim = None)

\* the service called with one bound, over the same stores and CSVs
InitOneBound ==
    /\ InitWindow
    /\ OneSided
    /\ Unstarted
    /\ Detached

\* the service over the CSVs that exercise the aggregates
InitAggregates ==
    /\ InitCreators \/ InitHours
    /\ Unstarted
    /\ Detached

\* the service over the metadata and rows that exercise the labeling
InitLabeling ==
    /\ InitLabels \/ InitRowTexts
    /\ Unstarted
    /\ Detached

\* the service over the stores that exercise the clustering loop
InitLoop ==
    /\ InitPool
    /\ Unstarted
    /\ Detached

\* a repository over a file that is absent, readable or failing to read
InitRepository ==
    /\ settings = Settings(DefaultDistanceThreshold, 1, DefaultMaxNeighbors,
                           DefaultMaxClusters, FALSE)
    /\ storeUp = TRUE /\ collectionExists = TRUE /\ items = Ids /\ storeFails = FALSE
    /\ dist = AllNear /\ meta = NoMeta
    /\ hasRepo = TRUE
    /\ csvExists \in BOOLEAN
    /\ csvFails \in (IF csvExists THEN BOOLEAN ELSE {FALSE})
    /\ csv = IF csvExists THEN [i \in Ids |-> CsvRow(i, Stamp(1))] ELSE <<>>
    /\ data_inicio = None /\ data_fim = None

\* the service over the windows that exercise the comparison of dates
InitBounded ==
    /\ InitBounds
    /\ Unstarted
    /\ Detached

\* a client with structured output enabled or not, asked for the overview of
\* any window
InitOverview ==
    /\ settings = Settings(DefaultDistanceThreshold, 1, DefaultMaxNeighbors,
                           DefaultMaxClusters, FALSE)
    /\ storeUp = TRUE /\ collectionExists = TRUE /\ items = Ids /\ storeFails = FALSE
    /\ dist = AllNear /\ meta = NoMeta
    /\ hasRepo = FALSE /\ csvExists = FALSE /\ csv = <<>> /\ csvFails = FALSE
    /\ data_inicio \in WindowDates /\ data_fim \in WindowDates
    /\ Unstarted
    /\ CallersIdle /\ HttpIdle
    /\ structured_output \in BOOLEAN
    /\ llm_pc = "idle" /\ invocations = <<>> /\ overview = <<>>

\* the dates a request may carry: none, zero-padded, unpadded, or no date
RequestDates == WindowDates \cup {Unpadded(d) : d \in 1..MaxDay} \cup {Garbage}

\* a request with any dates reaching the handler, the service built by
\* get_summary_service with its CSV repository, over an empty or a full store
InitRequest ==
    /\ settings = Settings(DefaultDistanceThreshold, 1, DefaultMaxNeighbors,
                           DefaultMaxClusters, FALSE)
    /\ storeUp = TRUE /\ collectionExists = TRUE /\ items \in {{}, Ids}
    /\ storeFails \in BOOLEAN
    /\ dist = AllNear /\ meta = NoMeta
    /\ hasRepo = TRUE /\ csvExists \in BOOLEAN /\ csvFails = FALSE
    /\ csv = IF csvExists THEN [i \in Ids |-> CsvRow(i, CreatedOn(i, 1))] ELSE <<>>
    /\ data_inicio \in RequestDates /\ data_fim \in RequestDates
    /\ pc = "constructed"
    /\ NoCallYet
    /\ CallersIdle /\ LlmIdle /\ HttpIdle

\* the threads about to call into the repository of a service not yet used
InitCallers ==
    /\ InitRepository
    /\ Unstarted
    /\ Detached

Next ==
    \/ Construct
    \/ ListAll
    \/ FilterWindow
    \/ Aggregate
    \/ PickSeed
    \/ Absorb
    \/ SortClusters
    \/ LabelCluster
    \/ Return

Spec == Init /\ [][Next]_vars
SpecWindow == InitWindowed /\ [][Next]_vars
SpecOneBound == InitOneBound /\ [][Next]_vars
SpecAggregates == InitAggregates /\ [][Next]_vars
SpecLabeling == InitLabeling /\ [][Next]_vars
SpecBounds == InitBounded /\ [][Next]_vars
\* the call is one thread of control: a step that can be taken is taken
SpecLoop == InitLoop /\ [][Next]_vars /\ WF_vars(Next)

\* the steps of the threads inside JiraCsvRepository, in any interleaving
NextCallers ==
    \E t \in Callers :
        \/ CallRepository(t)
        \/ EnsureLoaded(t)
        \/ CheckPath(t)
        \/ ReadCsv(t)
        \/ AssignDf(t)
        \/ ReturnRows(t)
        \/ NextCall(t)

SpecCallers == InitCallers /\ [][NextCallers]_vars

\* get_summary_report around generate_cluster_report
NextRequest ==
    \/ ValidateWindow
    \/ ListAll
    \/ FilterWindow
    \/ Aggregate
    \/ PickSeed
    \/ Absorb
    \/ SortClusters
    \/ LabelCluster
    \/ Return
    \/ Respond

SpecRequest == InitRequest /\ [][NextRequest]_vars

\* generate_structured_overview_pt
NextOverview ==
    \/ FirstAttempt
    \/ SecondAttempt

\* invoke_model answers or fails in bounded time, and the call goes on
SpecOverview == InitOverview /\ [][NextOverview]_vars /\ WF_vars(NextOverview)

\* ------------------------------------------------------------------ claims
Groups == returned[1].groups
PairwiseDisjoint(s) == \A a, b \in 1..Len(s) : a # b => s[a] \cap s[b] = {}

\* C1: the clusters behind the returned groups are pairwise disjoint, and each
\* returned group (like each retained cluster) has at least min_cluster_size
\* members.
C1_DisjointAndBigEnough ==
    /\ PairwiseDisjoint(clusters)
    /\ \A k \in 1..Len(clusters) : Cardinality(clusters[k]) >= settings.min_cluster_size
    /\ pc = "done" =>
         /\ PairwiseDisjoint([k \in 1..Len(Groups) |-> Groups[k].members])
         /\ \A k \in 1..Len(Groups) :
              /\ Groups[k].occurrences >= settings.min_cluster_size
              /\ Cardinality(Groups[k].members) >= settings.min_cluster_size

\* two groups are returned, one of them grown by a neighbor
C1_Witness ==
    /\ pc = "done"
    /\ Len(Groups) >= 2
    /\ \E k \in 1..Len(Groups) : Groups[k].occurrences >= 2

\* C2: when the clustering loop has ended, the clusters formed (retained or
\* discarded) cover exactly the input set left by the window filter, and no
\* identifier is in two of them.
C2_FormedPartitionInput ==
    (pc \in {"label", "done"} \/ (pc = "loop" /\ unclustered_ids = {})) =>
        /\ UNION Range(formed) = all_ids
        /\ PairwiseDisjoint(formed)

\* the loop has ended with at least two clusters formed, one grown by a
\* neighbor and retained, one discarded
C2_Witness ==
    /\ pc = "label"
    /\ Len(formed) >= 2
    /\ Len(clusters) >= 1
    /\ Len(clusters) < Len(formed)
    /\ \E k \in 1..Len(formed) : Cardinality(formed[k]) >= 2

\* C3: the returned groups are in non-increasing order of occurrences.
C3_GroupsSortedDesc ==
    pc = "done" =>
        \A k \in 1..(Len(Groups) - 1) : Groups[k].occurrences >= Groups[k + 1].occurrences

\* two groups of different sizes are returned, and the smaller was formed first
C3_Witness ==
    /\ pc = "done"
    /\ Len(Groups) >= 2
    /\ Groups[1].occurrences > Groups[2].occurrences
    /\ \E a, b \in 1..Len(formed) :
         a < b /\ formed[a] = Groups[2].members /\ formed[b] = Groups[1].members

\* C4 as stated: for every integer max_clusters = N, at most N groups are returned.
C4_AtMostNGroups ==
    pc = "done" => Len(Groups) <= settings.max_clusters

\* C4, amended: for max_clusters = N >= 0 at most N groups are returned; a
\* negative N makes the slice drop the last -N clusters, so max(len + N, 0)
\* groups are returned.
C4_AtMostNGroupsForNatN ==
    pc = "done" =>
        IF settings.max_clusters >= 0
        THEN Len(Groups) <= settings.max_clusters
        ELSE Len(Groups) = Max(Len(clusters) + settings.max_clusters, 0)

\* more clusters were retained than max_clusters >= 0 allows, and the report
\* holds max_clusters of them
C4_Witness ==
    /\ pc = "done"
    /\ settings.max_clusters >= 0
    /\ Len(clusters) > settings.max_clusters
    /\ Len(Groups) = settings.max_clusters

\* the day a cell or a window bound names, as a number
HasDay(v) == IsDate(v) \/ IsTimestamp(v)
DayNumber(v) == DayDigits(v)
\* the id has a row whose creation date lies outside [data_inicio, data_fim]
Outside(i) ==
    /\ i \in DOMAIN csv
    /\ HasDay(csv[i].Criado)
    /\ \/ DayNumber(csv[i].Criado) < DayNumber(data_inicio)
       \/ DayNumber(csv[i].Criado) > DayNumber(data_fim)
RowIds(rows) == {rows[k].id : k \in 1..Len(rows)}
DayInWindow(day) ==
    /\ HasDay(day)
    /\ DayNumber(data_inicio) <= DayNumber(day)
    /\ DayNumber(day) <= DayNumber(data_fim)

\* C5 as stated: with a window supplied (here one with start <= end), an
\* identifier whose row was created outside the window is in no returned
\* cluster and in no aggregate.
C5_OutsideNeverClustered ==
    (pc = "done" /\ DateRange # None /\ DayNumber(data_inicio) <= DayNumber(data_fim)) =>
        \A i \in Ids : Outside(i) =>
            /\ \A k \in 1..Len(Groups) : i \notin Groups[k].members
            /\ i \notin RowIds(rows_all)
            /\ \A k \in 1..Len(Groups) : i \notin Groups[k].row_ids

\* C5, amended: with a window supplied and a repository whose
\* filter_ids_by_date call returned normally, an identifier whose row was
\* created outside the window is in no cluster, formed or returned; and
\* whether or not that call raised, no such row is among the rows counted
\* for the creator counts, the daily counts or the elapsed hours, and every
\* day of the daily counts lies in the window.
C5_OutsideNeverClusteredIfFiltered ==
    DateRange # None =>
        /\ \A i \in Ids : Outside(i) =>
            /\ filterOutcome = "applied" =>
                 /\ i \notin all_ids
                 /\ i \notin UNION Range(formed)
                 /\ i \notin UNION Range(clusters)
                 /\ \A k \in 1..Len(report_entries) : i \notin report_entries[k].members
                 /\ pc = "done" => \A k \in 1..Len(Groups) : i \notin Groups[k].members
            /\ i \notin RowIds(rows_all)
            /\ \A k \in 1..Len(report_entries) : i \notin report_entries[k].row_ids
        /\ \A k \in 1..Len(daily_open_counts) : DayInWindow(daily_open_counts[k][1])

\* a windowed call returned a group and aggregates while the store held an
\* item created outside the window
C5_Witness ==
    /\ pc = "done"
    /\ DateRange # None
    /\ filterOutcome = "applied"
    /\ \E i \in items : Outside(i)
    /\ Len(Groups) >= 1
    /\ user_open_counts # <<>>
    /\ daily_open_counts # <<>>
    /\ window_total_hours > 0

\* a neighbor loop has run for the current seed
Absorbed == seed_id # 0 /\ pc # "absorb" /\ "query" \notin storeFaults

\* C6: a returned neighbor still in the pool joins the seed's cluster if and
\* only if its distance is <= distance_threshold (so one at exactly the
\* threshold joins).
C6_JoinsIffWithinThreshold ==
    Absorbed =>
        \A k \in 1..Len(neighbors) :
            neighbors[k].id \in pool_at_query =>
                (neighbors[k].id \in current_cluster
                    <=> neighbors[k].distance <= settings.distance_threshold)

\* a neighbor at exactly the threshold joined, one beyond it did not
C6_Witness ==
    /\ Absorbed
    /\ \E k \in 1..Len(neighbors) :
         /\ neighbors[k].id \in pool_at_query
         /\ neighbors[k].distance = settings.distance_threshold
         /\ neighbors[k].id \in current_cluster
    /\ \E k \in 1..Len(neighbors) :
         /\ neighbors[k].id \in pool_at_query
         /\ neighbors[k].distance > settings.distance_threshold
         /\ neighbors[k].id \notin current_cluster

\* C7: for the seed, pool and query result at hand, the cluster built under
\* the threshold in force is contained in the one built under any larger
\* threshold, and contains the one built under any smaller threshold.
C7_MonotonicInThreshold ==
    Absorbed =>
        \A t \in Distances :
            LET other == AddNeighbors({seed_id}, pool_at_query, neighbors, t).cluster
            IN  /\ t >= settings.distance_threshold => current_cluster \subseteq other
                /\ t <= settings.distance_threshold => other \subseteq current_cluster

\* a neighbor joined under the threshold in force, and a larger threshold
\* would let one more join
C7_Witness ==
    /\ Absorbed
    /\ Cardinality(current_cluster) >= 2
    /\ \E t \in Distances :
         /\ t > settings.distance_threshold
         /\ AddNeighbors({seed_id}, pool_at_query, neighbors, t).cluster # current_cluster

\* C8: every member of a cluster other than its seed is an entry of the
\* seed's own query result, of at most max_neighbors entries, at a distance
\* <= distance_threshold; one query is made per cluster formed.
C8_OneHopOnly ==
    /\ Len(neighbors) <= settings.max_neighbors
    /\ nQueries = Len(formed) + (IF pc = "absorb" \/ "query" \in storeFaults THEN 1 ELSE 0)
    /\ Absorbed =>
         /\ formed[Len(formed)] = current_cluster
         /\ \A m \in current_cluster \ {seed_id} :
              \E k \in 1..Len(neighbors) :
                  /\ neighbors[k].id = m
                  /\ neighbors[k].distance <= settings.distance_threshold

\* the seed absorbed a neighbor, and an item close to that neighbor but not
\* to the seed stayed in the pool
C8_Witness ==
    /\ Absorbed
    /\ pc = "loop"
    /\ \E m \in current_cluster \ {seed_id} : \E x \in unclustered_ids :
         /\ Distance(m, x) <= settings.distance_threshold
         /\ Distance(seed_id, x) > settings.distance_threshold

\* C9: when the store reports zero items the call returns the empty report
\* and has made no neighbor query and no repository call.
C9_EmptyStoreEmptyReport ==
    (items = {} /\ pc \notin {"new", "ready", "failed"}) =>
        /\ pc = "done"
        /\ returned = Report(<<>>, <<>>, <<>>, 0)
        /\ nQueries = 0
        /\ nRepoCalls = 0

\* an empty store was listed by a windowed call of a service with a repository
C9_Witness ==
    /\ pc = "done"
    /\ items = {}
    /\ hasRepo
    /\ DateRange # None

\* C10 as stated: whenever the store is unreachable, its collection missing,
\* or a list-all or neighbor query fails, the caller gets a failure and no
\* report.
C10_StoreFailureIsFatal ==
    storeFaults # {} => returned = <<>> /\ pc # "done"

\* the store failures that __init__ absorbs
Tolerated == IF settings.create_if_missing THEN {"missing"} ELSE {}

\* C10, amended: when the store is unreachable, its collection is missing
\* and create_if_missing is false, or a list-all or neighbor query fails,
\* the call ends in a failure and returns no report; with create_if_missing
\* true a missing collection is created empty and the call goes on.
C10_StoreFailureIsFatalUnlessCreated ==
    /\ (pc # "new" /\ ~storeUp) => pc = "failed"
    /\ storeFaults \ Tolerated # {} => pc = "failed"
    /\ pc = "failed" => returned = <<>>
    /\ ("missing" \in storeFaults /\ settings.create_if_missing /\ pc = "done") =>
            returned = Report(<<>>, <<>>, <<>>, 0)

\* a neighbor query failed after a cluster had been retained
C10_Witness ==
    /\ pc = "failed"
    /\ "query" \in storeFaults
    /\ clusters # <<>>
    /\ returned = <<>>

C12_CsvAbsentLikeNoRepo ==
    (hasRepo /\ ~csvExists /\ pc = "done") =>
        /\ all_ids = items
        /\ UNION Range(formed) = items
        /\ returned[1].hours = 0
        /\ \A k \in 1..Len(Groups) :
              /\ Groups[k].total_hours = 0
              /\ Groups[k].csv_summaries = <<>>

\* the rows counted for the creator counts
Named(rows) == SelectSeq(rows, LAMBDA r : IsStr(r.Criador) /\ Strip(r.Criador) # <<>>)
\* lines 76-111 have run to their end; and the call stands right after them
Counted == aggOutcome = "done"
JustCounted == Counted /\ pc = "loop" /\ nQueries = 0

\* C13 as stated: creators that differ only by surrounding whitespace or by
\* letter case are counted under one key, so no two keys of the creator
\* counts are equal once lower-cased, and every named row is counted.
C13_OneKeyPerCreatorAnyCase ==
    Counted =>
        /\ \A k, l \in 1..Len(user_open_counts) :
              k # l => Lower(user_open_counts[k][1]) # Lower(user_open_counts[l][1])
        /\ \A k \in 1..Len(user_open_counts) :
              user_open_counts[k][2] =
                  Len(SelectSeq(Named(rows_all),
                        LAMBDA r : Lower(Strip(r.Criador)) = Lower(user_open_counts[k][1])))

\* C13, amended: creators that differ only by surrounding whitespace are
\* counted under one key, the trimmed string; creators that differ by letter
\* case are counted under different keys.  Each key is a trimmed non-blank
\* string, no two keys are equal, and a key's count is the number of fetched
\* rows whose trimmed creator is exactly that key.
C13_OneKeyPerTrimmedCreator ==
    Counted =>
        /\ \A k, l \in 1..Len(user_open_counts) :
              k # l => user_open_counts[k][1] # user_open_counts[l][1]
        /\ \A k \in 1..Len(user_open_counts) :
              /\ user_open_counts[k][1] # <<>>
              /\ Strip(user_open_counts[k][1]) = user_open_counts[k][1]
              /\ user_open_counts[k][2] =
                    Len(SelectSeq(Named(rows_all),
                          LAMBDA r : Strip(r.Criador) = user_open_counts[k][1]))
        /\ \A n \in 1..Len(Named(rows_all)) :
              \E k \in 1..Len(user_open_counts) :
                  user_open_counts[k][1] = Strip(Named(rows_all)[n].Criador)

\* rows of creators "Ana", "ana " and " Ana" were counted: Ana=2, ana=1
C13_Witness ==
    /\ Counted
    /\ pc = "done"
    /\ \E k, l \in 1..Len(user_open_counts) :
         /\ user_open_counts[k] = <<Ana, 2>>
         /\ user_open_counts[l] = <<Lower(Ana), 1>>
    /\ \E n \in 1..Len(rows_all) : rows_all[n].Criador # Strip(rows_all[n].Criador)

\* the place of a key's first row among the rows counted
FirstSeen(key) ==
    CHOOSE n \in 1..Len(Named(rows_all)) :
        /\ Strip(Named(rows_all)[n].Criador) = key
        /\ \A m \in 1..(n - 1) : Strip(Named(rows_all)[m].Criador) # key

\* C14: the creator counts are in non-increasing order of count, and of two
\* creators with equal counts the one first seen in the fetched rows comes
\* first.
C14_CountsDescThenFirstSeen ==
    Counted =>
        \A k, l \in 1..Len(user_open_counts) :
            k < l =>
                \/ user_open_counts[k][2] > user_open_counts[l][2]
                \/ /\ user_open_counts[k][2] = user_open_counts[l][2]
                   /\ FirstSeen(user_open_counts[k][1]) < FirstSeen(user_open_counts[l][1])

\* two creators with equal counts were returned, the first seen first
C14_Witness ==
    /\ Counted
    /\ pc = "done"
    /\ Len(user_open_counts) >= 2
    /\ user_open_counts[1][2] = user_open_counts[2][2]
    /\ FirstSeen(user_open_counts[1][1]) < FirstSeen(user_open_counts[2][1])

\* the creator seen second has the larger count and comes first
C14_ReorderedWitness ==
    /\ Counted
    /\ pc = "done"
    /\ Len(user_open_counts) = 2
    /\ user_open_counts[1][2] > user_open_counts[2][2]
    /\ FirstSeen(user_open_counts[1][1]) > FirstSeen(user_open_counts[2][1])

RECURSIVE SumCounts(_)
SumCounts(counts) == IF counts = <<>> THEN 0 ELSE Head(counts)[2] + SumCounts(Tail(counts))

\* C15: a fetched row whose creation timestamp does not parse as a date adds
\* to no daily count: the daily counts sum to the number of fetched rows
\* with a valid creation day, and every key is a day.
C15_DailyCountsOnlyValidDays ==
    Counted =>
        /\ SumCounts(daily_open_counts) =
              Len(SelectSeq(rows_all, LAMBDA r : ParseDate(r.Criado) # NA))
        /\ \A k \in 1..Len(daily_open_counts) :
              \E d \in 1..MaxDay : daily_open_counts[k][1] = Iso(d)

\* the row was resolved before it was created
Backward(r) ==
    /\ ToDatetime(r.Criado) # NaT
    /\ ToDatetime(r.Resolvido) # NaT
    /\ ToDatetime(r.Resolvido) < ToDatetime(r.Criado)
\* the list with r put in after its first p rows, and with its k-th row taken out
InsertAt(rows, p, r) == SubSeq(rows, 1, p) \o <<r>> \o SubSeq(rows, p + 1, Len(rows))
RemoveAt(rows, k) == SubSeq(rows, 1, k - 1) \o SubSeq(rows, k + 1, Len(rows))
BackwardRow == [id |-> 0, Criador |-> Ana, Criado |-> StampAt(1, 9),
                Resolvido |-> StampAt(1, 1), Resumo |-> NaN, Descricao |-> NaN,
                CriadoDate |-> Absent]

\* C16: compute_total_hours is never negative, and a row resolved before
\* its creation adds exactly 0: putting such a row anywhere into the rows
\* just summed, or taking one out, leaves the total as it is.
C16_HoursNeverNegative ==
    /\ window_total_hours >= 0
    /\ \A k \in 1..Len(report_entries) : report_entries[k].total_hours >= 0
    /\ JustCounted =>
         /\ \A k \in 1..Len(rows_all) : RowHours(rows_all[k]) >= 0
         /\ \A p \in 0..Len(rows_all) :
              ComputeTotalHours(InsertAt(rows_all, p, BackwardRow)) = window_total_hours
         /\ \A k \in 1..Len(rows_all) :
              Backward(rows_all[k]) =>
                  /\ RowHours(rows_all[k]) = 0
                  /\ ComputeTotalHours(RemoveAt(rows_all, k)) = window_total_hours

\* the hours of rows resolved after and before their creation were summed
C16_Witness ==
    /\ JustCounted
    /\ window_total_hours > 0
    /\ \E k \in 1..Len(rows_all) : Backward(rows_all[k])
    /\ \E k \in 1..Len(rows_all) : RowHours(rows_all[k]) > 0

\* the rows at the places of S, in their order
RECURSIVE Part(_, _)
Part(rows, S) ==
    IF rows = <<>> THEN <<>>
    ELSE (IF 1 \in S THEN <<Head(rows)>> ELSE <<>>)
         \o Part(Tail(rows), {k - 1 : k \in S \ {1}})
\* the sum of the rows' hours in exact arithmetic
RECURSIVE ExactHours(_)
ExactHours(rows) ==
    IF rows = <<>> THEN 0 ELSE RowHours(Head(rows)) + ExactHours(Tail(rows))
Abs(n) == IF n >= 0 THEN n ELSE 0 - n

\* C17 as stated: for every split of the rows just summed into two parts,
\* the total of the whole equals the total of one part plus the total of the
\* other.
C17_TotalIsSumOfParts ==
    JustCounted =>
        \A S \in SUBSET (1..Len(rows_all)) :
            window_total_hours =
                RoundFloat(ComputeTotalHours(Part(rows_all, S))
                           + ComputeTotalHours(Part(rows_all, (1..Len(rows_all)) \ S)))

\* C17, amended: the total of a list followed by one more row is the total
\* of the list plus that row's hours (a row with a missing or invalid
\* timestamp adding 0); for any split into two parts the total of the whole
\* equals the sum of the parts' totals whenever no sum is rounded, and
\* otherwise differs from it by float rounding only (at most one float
\* spacing per row).
C17_TotalIsSumOfPartsUpToRounding ==
    JustCounted =>
        /\ \A k \in 1..Len(rows_all) :
              (ToDatetime(rows_all[k].Criado) = NaT \/ ToDatetime(rows_all[k].Resolvido) = NaT)
                  => RowHours(rows_all[k]) = 0
        /\ rows_all # <<>> =>
              window_total_hours =
                  RoundFloat(ComputeTotalHours(SubSeq(rows_all, 1, Len(rows_all) - 1))
                             + ComputeTotalHours(<<rows_all[Len(rows_all)]>>))
        /\ \A S \in SUBSET (1..Len(rows_all)) :
              LET parts == RoundFloat(ComputeTotalHours(Part(rows_all, S))
                               + ComputeTotalHours(Part(rows_all, (1..Len(rows_all)) \ S)))
              IN  /\ ExactHours(rows_all) <= 2 ^ MantissaBits =>
                        /\ window_total_hours = ExactHours(rows_all)
                        /\ parts = window_total_hours
                  /\ Abs(parts - window_total_hours)
                        <= Len(rows_all) * Ulp(ExactHours(rows_all))

\* three rows were summed whose total differs by rounding from the sum of the
\* totals of two parts of them
C17_Witness ==
    /\ JustCounted
    /\ Len(rows_all) >= 3
    /\ \E S \in SUBSET (1..Len(rows_all)) :
         window_total_hours #
             RoundFloat(ComputeTotalHours(Part(rows_all, S))
                        + ComputeTotalHours(Part(rows_all, (1..Len(rows_all)) \ S)))

\* the item's metadata holds a non-blank string under the k-th alias
HasTextAt(m, k) ==
    LET value == Get(meta[m], summary_keys[k])
    IN  IsStr(value) /\ Strip(value) # <<>>
HasText(m) == \E k \in 1..Len(summary_keys) : HasTextAt(m, k)
\* the highest-priority alias under which the item (one of the items) holds a text
BestAlias(m) ==
    CHOOSE k \in 1..Len(summary_keys) :
        HasTextAt(m, k) /\ \A j \in 1..(k - 1) : ~HasTextAt(m, j)
BestAliasAmong(S) ==
    CHOOSE k \in 1..Len(summary_keys) :
        /\ \E m \in S : HasTextAt(m, k)
        /\ \A j \in 1..(k - 1) : \A m \in S : ~HasTextAt(m, j)
TextAt(m, k) == Strip(Get(meta[m], summary_keys[k]))

\* C18: the representative text of a group is the one every enumeration
\* order of the cluster's members yields, metadata and rows unchanged.
C18_RepresentativeIgnoresOrder ==
    \A n \in 1..Len(report_entries) :
        \A order \in Orders(report_entries[n].members) :
            Representative(Metadatas(order), report_entries[n].csv_summaries)
                = report_entries[n].representative_summary

\* C19 as stated (here for members none of whose texts is the placeholder):
\* when some member's metadata holds a text, the representative text is the
\* trimmed text some member holds under the highest-priority alias under
\* which any member holds one.
C19_BestAliasOfCluster ==
    \A n \in 1..Len(report_entries) :
        LET e == report_entries[n]
        IN  ((\E m \in e.members : HasText(m))
             /\ (\A m \in e.members : HasText(m) => TextAt(m, BestAlias(m)) # NotFound)) =>
                \E m \in e.members :
                    /\ HasTextAt(m, BestAliasAmong(e.members))
                    /\ e.representative_summary = TextAt(m, BestAliasAmong(e.members))

\* C19, amended: when some member's metadata holds a text, the
\* representative text is, for one such member (the first in the order the
\* store lists the cluster's metadata), the trimmed text under the
\* highest-priority alias under which that member holds one: priority
\* decides within a member, not across members.  Only if that text is the
\* placeholder "Nome nao encontrado" and a fetched row has a text is the
\* first row text taken instead.
C19_BestAliasOfOneMember ==
    \A n \in 1..Len(report_entries) :
        LET e == report_entries[n]
        IN  (\E m \in e.members : HasText(m)) =>
                \E m \in e.members :
                    /\ HasText(m)
                    /\ IF TextAt(m, BestAlias(m)) = NotFound /\ e.csv_summaries # <<>>
                       THEN e.representative_summary = e.csv_summaries[1]
                       ELSE e.representative_summary = TextAt(m, BestAlias(m))

\* the representative text comes from a lower-priority alias of one member
\* while another member holds a text under a higher-priority alias
C19_Witness ==
    /\ pc = "done"
    /\ \E n \in 1..Len(Groups) : \E a, b \in Groups[n].members :
         /\ HasText(a) /\ HasText(b)
         /\ BestAlias(b) < BestAlias(a)
         /\ Groups[n].representative_summary = TextAt(a, BestAlias(a))
         /\ Groups[n].representative_summary # TextAt(b, BestAlias(b))

\* the fetched row has a non-blank string under a key of row_summary_keys
\* (the CSV has the columns Resumo and Descricao), and that text trimmed
RowHasText(i) ==
    \/ IsStr(csv[i].Resumo) /\ Strip(csv[i].Resumo) # <<>>
    \/ IsStr(csv[i].Descricao) /\ Strip(csv[i].Descricao) # <<>>
RowText(i) ==
    IF IsStr(csv[i].Resumo) /\ Strip(csv[i].Resumo) # <<>> THEN Strip(csv[i].Resumo)
    ELSE Strip(csv[i].Descricao)
FirstRowWithText(S) == CHOOSE i \in S : RowHasText(i) /\ \A j \in S : RowHasText(j) => i <= j

\* C20: when no member's metadata holds a text but a row fetched for the
\* cluster does, the representative text is the text of the first such row,
\* and it is not in the group's sample list.
C20_FallsBackToFirstRowText ==
    \A n \in 1..Len(report_entries) :
        LET e == report_entries[n]
        IN  ((\A m \in e.members : ~HasText(m)) /\ (\E i \in e.row_ids : RowHasText(i))) =>
                /\ e.representative_summary = RowText(FirstRowWithText(e.row_ids))
                /\ \A k \in 1..Len(e.sample_summaries) :
                      e.sample_summaries[k] # e.representative_summary

\* a group without metadata text was labelled by its first row text; another
\* row holds the same text, and the samples hold only the text of a third
C20_Witness ==
    /\ pc = "done"
    /\ \E n \in 1..Len(Groups) :
         LET e == Groups[n]
         IN  /\ \A m \in e.members : ~HasText(m)
             /\ \E i \in e.row_ids : RowHasText(i)
             /\ e.representative_summary = RowText(FirstRowWithText(e.row_ids))
             /\ \E j \in e.row_ids :
                  /\ j # FirstRowWithText(e.row_ids)
                  /\ RowHasText(j)
                  /\ RowText(j) = e.representative_summary
             /\ e.sample_summaries # <<>>

\* the text as the sample comparison takes it: trimmed and lower-cased
Normalized(t) == Lower(Strip(t))

\* C21: in every group, the sample texts are non-blank, pairwise distinct once
\* trimmed and lower-cased, and none equals the group's representative text
\* once trimmed and lower-cased.
C21_SamplesDistinctAndNotRepresentative ==
    \A n \in 1..Len(report_entries) :
        LET e == report_entries[n]
        IN  /\ \A k \in 1..Len(e.sample_summaries) :
                  /\ Strip(e.sample_summaries[k]) # <<>>
                  /\ Normalized(e.sample_summaries[k]) # Normalized(e.representative_summary)
            /\ \A k, l \in 1..Len(e.sample_summaries) :
                  k # l => Normalized(e.sample_summaries[k]) # Normalized(e.sample_summaries[l])

\* the values the cluster's metadata and fetched rows hold that could be
\* samples: non-blank strings under a summary alias or a row text column,
\* trimmed, other than the representative text, each counted once
MetaValues(m) ==
    {TextAt(m, k) : k \in {j \in 1..Len(summary_keys) : HasTextAt(m, j)}}
RowValues(i) ==
    {Strip(v) : v \in {w \in {csv[i].Resumo, csv[i].Descricao} : IsStr(w) /\ Strip(w) # <<>>}}
EligibleValues(e) ==
    {Normalized(t) : t \in UNION ({MetaValues(m) : m \in e.members}
                                   \cup {RowValues(i) : i \in e.row_ids})}
        \ {Normalized(e.representative_summary)}

OffersAt(m, k, rep) == HasTextAt(m, k) /\ Normalized(TextAt(m, k)) # Normalized(rep)
Offers(m, rep) == \E k \in 1..Len(summary_keys) : OffersAt(m, k, rep)
Offer(m, rep) ==
    TextAt(m, CHOOSE k \in 1..Len(summary_keys) :
                  OffersAt(m, k, rep) /\ \A j \in 1..(k - 1) : ~OffersAt(m, j, rep))
\* the fetched rows whose text is read: the first RowSummaryLimit that have one
RowsRead(e) ==
    {i \in e.row_ids :
        /\ RowHasText(i)
        /\ Cardinality({j \in e.row_ids : RowHasText(j) /\ j < i}) < RowSummaryLimit}
\* the rows read that offer a sample: their text is not the representative text
RowsOffering(e) == {i \in RowsRead(e) : RowText(i) # e.representative_summary}

C22_CappedWitness ==
    /\ pc = "done"
    /\ \E n \in 1..Len(Groups) :
         LET e == Groups[n]
             offering == {m \in e.members : Offers(m, e.representative_summary)}
         IN  /\ Len(e.sample_summaries) = SampleLimit
             /\ offering # {}
             /\ Cardinality(offering) < SampleLimit
             /\ Cardinality(offering) + Cardinality(RowsOffering(e)) > SampleLimit

\* the clusters retained by the run that takes the least identifier of the
\* pool as seed at each step, the store answering each query in full
RECURSIVE LeastSeedClusters(_)
LeastSeedClusters(pool) ==
    IF pool = {} THEN <<>>
    ELSE LET seed == CHOOSE x \in pool : \A y \in pool : x <= y
             r == AddNeighbors({seed}, pool \ {seed}, NearestFirst(seed, items),
                               settings.distance_threshold)
         IN  (IF Retained(r.cluster) THEN <<r.cluster>> ELSE <<>>)
             \o LeastSeedClusters(r.pool)

\* C23: whichever identifiers the pool yielded as seeds, the returned groups
\* have the member sets (hence the counts) of any other run over the same
\* store, rows, window and settings; here the other run is the one taking
\* the least identifier each time, and every query is answered in full.
C23_GroupsIgnoreSeedOrder ==
    (pc = "done" /\ settings.max_neighbors >= Cardinality(items)) =>
        {Groups[k].members : k \in 1..Len(Groups)}
            = Range(Take(SortBySizeDesc(LeastSeedClusters(all_ids)), settings.max_clusters))

\* C24: the clustering loop terminates.  Each iteration takes its seed, and
\* whatever it absorbs, out of the pool and puts nothing in, so at most one
\* neighbor query is made per input identifier; from any point of the loop
\* the call reaches the sorting step, unless a query fails and ends the call.
C24_LoopTerminates ==
    /\ [](nQueries <= Cardinality(all_ids))
    /\ [][pc = "loop" => (unclustered_ids' \subseteq unclustered_ids \ {seed_id'})]_vars
    /\ [][pc = "absorb" => (unclustered_ids' \subseteq unclustered_ids)]_vars
    /\ (pc \in {"loop", "absorb"}) ~> (pc \in {"label", "failed"})
    /\ (pc \in {"loop", "absorb"} /\ ~storeFails) ~> (pc = "label")

\* the loop ended after one query per input identifier, each answer cut to
\* one entry
C24_Witness ==
    /\ pc = "label"
    /\ settings.max_neighbors = 1
    /\ Cardinality(all_ids) >= 2
    /\ nQueries = Cardinality(all_ids)

\* the loop ended after fewer queries than input identifiers
C24_FewerQueriesWitness ==
    /\ pc = "label"
    /\ nQueries >= 1
    /\ nQueries < Cardinality(all_ids)

\* C25: whatever the interleaving of the calls sharing one repository, the
\* file is read into a table at most once, and the cached table, once set,
\* is never replaced.
C25_LoadedOnceNeverReplaced ==
    /\ [](nLoads <= 1)
    /\ [][cached_df # 0 => cached_df' = cached_df]_vars

\* the ids of the store whose row was created on a day of [start, end], the
\* bounds read as the dates they were validated as
CreatedWithin(start, end) ==
    {i \in items \cap DOMAIN csv :
        /\ HasDay(csv[i].Criado)
        /\ Strptime(start) <= DayNumber(csv[i].Criado)
        /\ DayNumber(csv[i].Criado) <= Strptime(end)}

C26_ExactlyTheIdsInPaddedWindow ==
    (filterOutcome = "applied" /\ Len(data_inicio) = DateLen /\ Len(data_fim) = DateLen) =>
        all_ids = CreatedWithin(data_inicio, data_fim)

\* the k-th invoke_model call gave nothing to return
Unusable(k) ==
    invocations[k][2] = "raises" \/ ~Truthy(BestEffortJson(invocations[k][2]))
\* the k-th invoke_model call carried the response_format
Structured(k) == invocations[k][1]

\* C27 as stated: a free-form call is made only after a structured attempt
\* that produced no usable result, the canned response is returned only
\* after two attempts produced none, the model is invoked at most twice, and
\* the operation returns without raising.
C27_FreeFormOnlyAfterStructured ==
    /\ Len(invocations) <= 2
    /\ \A k \in 1..Len(invocations) :
          ~Structured(k) => \E j \in 1..(k - 1) : Structured(j) /\ Unusable(j)
    /\ (overview # <<>> /\ overview[1].by = "canned") =>
          Len(invocations) = 2 /\ Unusable(1) /\ Unusable(2)
    /\ llm_pc # "raised"

\* C27, amended: the model is invoked at most twice.  The first call carries
\* the structured response_format only when structured output is enabled
\* (otherwise both calls are free-form); the second call, always free-form,
\* is made only after the first gave no usable result (an exception, no
\* text, or text from which no truthy JSON value is parsed); the canned
\* response, with the period of the request, is returned only after both
\* gave none; a usable result is returned as parsed.  The operation never
\* raises and always returns.
C27_SecondOnlyAfterFirstFailed ==
    /\ [](/\ Len(invocations) <= 2
          /\ llm_pc \in {"idle", "second", "returned"}
          /\ Len(invocations) >= 1 => (Structured(1) <=> structured_output)
          /\ Len(invocations) = 2 => ~Structured(2) /\ Unusable(1)
          /\ llm_pc = "second" => Len(invocations) = 1 /\ Unusable(1)
          /\ llm_pc = "returned" <=> overview # <<>>
          /\ overview # <<>> =>
                CASE overview[1].by = "first" ->
                        /\ Len(invocations) = 1 /\ ~Unusable(1)
                        /\ overview[1].data = BestEffortJson(invocations[1][2])
                  [] overview[1].by = "second" ->
                        /\ Len(invocations) = 2 /\ Unusable(1) /\ ~Unusable(2)
                        /\ overview[1].data = BestEffortJson(invocations[2][2])
                  [] overview[1].by = "canned" ->
                        /\ Len(invocations) = 2 /\ Unusable(1) /\ Unusable(2)
                        /\ overview[1].periodo = Periodo)
    /\ <>(llm_pc = "returned")

\* with structured output disabled, the canned response was returned after
\* two free-form calls, the first raising and the second giving prose
C27_Witness ==
    /\ llm_pc = "returned"
    /\ ~structured_output
    /\ overview[1].by = "canned"
    /\ invocations = <<<<FALSE, "raises">>, <<FALSE, "prose">>>>

\* the second, free-form call gave the result after a structured first call
\* whose JSON text was falsy
C27_SecondWitness ==
    /\ llm_pc = "returned"
    /\ overview[1].by = "second"
    /\ invocations[1] = <<TRUE, "falsy">>

\* the request is one the handler means to reject: both dates given, and
\* one that strptime does not take or the start after the end
Rejectable ==
    /\ data_inicio # None /\ data_fim # None
    /\ \/ Strptime(data_inicio) = NaT
       \/ Strptime(data_fim) = NaT
       \/ Strptime(data_inicio) > Strptime(data_fim)

\* C28: a request with both dates and the start after the end, or a date
\* not in YYYY-MM-DD format, is answered with status 400, not 500, and no
\* report generation is started.
C28_BadDatesAnswered400 ==
    Rejectable => pc = "constructed" /\ http_status \in {0, 400}

\* C29: when generate_cluster_report has returned normally and the PDF
\* rendering does not fail, the request is answered with the PDF as
\* application/pdf, not with an error status.
C29_ReportAnsweredAsPdf ==
    (pc = "done" /\ http_status # 0 /\ "build_summary_report_pdf" \notin http_raised) =>
        http_status = 200 /\ http_body = <<"application/pdf">>

\* the groups labeled, as the report lists them
Labeled == Take(clusters, settings.max_clusters)

\* C30: when exactly one of data_inicio and data_fim is given, no date
\* filtering is applied anywhere: the ids clustered are all the ids
\* listed, and the rows behind the aggregates, the aggregates and every
\* group's entry are those that the rows fetched with no window give.
C30_OneBoundFiltersNothing ==
    OneSided =>
        /\ filterOutcome \in {"none", "skipped"}
        /\ ~dateCol
        /\ pc \in {"filter", "aggregate", "loop", "absorb", "label", "done"} =>
              all_ids = items
        /\ aggOutcome = "done" =>
              /\ rows_all = (IF df THEN GetRowsByIds(items, None) ELSE <<>>)
              /\ user_open_counts = UserOpenCounts(rows_all)
              /\ daily_open_counts = DailyOpenCounts(rows_all)
              /\ window_total_hours = ComputeTotalHours(rows_all)
        /\ \A k \in 1..Len(report_entries) :
              \E metadatas \in MetadataLists(Labeled[k]) :
                 report_entries[k] \in
                    {Entry(k, Labeled[k], metadatas, GetRowsByIds(Labeled[k], None)),
                     Entry(k, Labeled[k], metadatas, <<>>)}

\* a report returned for a window with only a start, the last day, whose
\* aggregates count a row created on the first day
C30_Witness ==
    /\ pc = "done"
    /\ data_inicio = Iso(MaxDay) /\ data_fim = None
    /\ report_entries # <<>>
    /\ \E k \in 1..Len(rows_all) : rows_all[k].Criado = Stamp(1)
    /\ daily_open_counts # <<>>

====
